---- MODULE Spec2Model ----
(***************************************************************************)
(* Samsung phone advisor: the query understanding and retrieval core.      *)
(*                                                                         *)
(* Texts are TLA+ strings.  Offsets are 0-based as in Python: offset k of  *)
(* s is the position before s[k], and Len(s) is the end of the text.       *)
(* Every regular expression of the source is translated to a matcher that  *)
(* follows the backtracking order of Python's re module, so that the       *)
(* captured groups are the ones the code reads.                            *)
(***************************************************************************)
EXTENDS Integers, Sequences, FiniteSets, TLC

VARIABLES
    pc,                \* position of the request in the pipeline
    question,          \* request.question of the POST /ask request
    query,             \* the question text handed to retrieve_specs
    catalog,           \* the rows of the phones table, in the order .all() yields them
    scraping,          \* a run of run_scraper is past its count of the rows and has not ended
    query_type,        \* result['query_type']
    criteria,          \* result['criteria'], a dict: DOMAIN \subseteq {"price_max", "focus"}
    matched_phones,    \* extract_phone_names: the (phone_name, score) list before sorting
    mentioned_phones,  \* the list extract_phone_names returns
    phones,            \* result['phones'] of retrieve_specs; the records _prepare_recommendations scores
    looked,            \* how many of the resolved names the loop of lines 275-278 has looked up
    scored,            \* the outcome of _score_phone for every record of phones
    recommendation_data,  \* what _prepare_recommendations returns
    comparison_data,   \* what _prepare_comparison returns
    self_model,        \* self.model and self.fallback_model are set: an API key is configured
    extracted_data,    \* the dict extract_data returns
    calls,             \* the generate_content calls made, in order: backend and outcome
    response           \* the text generate_review returns

vars == <<pc, question, query, catalog, scraping, query_type, criteria, matched_phones,
          mentioned_phones, phones, looked, scored, recommendation_data,
          comparison_data, self_model, extracted_data, calls, response>>

---------------------------------------------------------------------------
(* Python str primitives                                                    *)

\* s[k] for 0 <= k < len(s); "" outside the text
Ch(s, k) == IF k >= 0 /\ k < Len(s) THEN SubSeq(s, k + 1, k + 1) ELSE ""

\* s.startswith(lit, k)
LitAt(s, k, lit) == k >= 0 /\ k + Len(lit) <= Len(s) /\ SubSeq(s, k + 1, k + Len(lit)) = lit

\* lit in s
Contains(s, lit) == \E k \in 0..Len(s) : LitAt(s, k, lit)

\* the characters are those of U+0000-U+00FF; the letters c with c.lower() != c
UpperAlpha == "ABCDEFGHIJKLMNOPQRSTUVWXYZÀÁÂÃÄÅÆÇÈÉÊËÌÍÎÏÐÑÒÓÔÕÖØÙÚÛÜÝÞ"
\* c.lower() of each, at the same offset
LowerAlpha == "abcdefghijklmnopqrstuvwxyzàáâãäåæçèéêëìíîïðñòóôõöøùúûüýþ"
Digits == "0123456789"
\* the other characters of str.isalnum(): letters without case and numerals that are not decimal digits
OtherAlnum == "ª²³µ¹º¼½¾ßÿ"
\* the characters of str.isspace() besides space, \t, \n, \r and \f: U+000B, U+001C-U+001F,
\* U+0085 and U+00A0
OtherSpace == " "

UpperChars == {Ch(UpperAlpha, i) : i \in 0..(Len(UpperAlpha) - 1)}
LowerChars == {Ch(LowerAlpha, i) : i \in 0..(Len(LowerAlpha) - 1)}
DigitChars == {Ch(Digits, i) : i \in 0..9}
\* the class \w of re on a str pattern: str.isalnum() or _
WordChars ==
    UpperChars \cup LowerChars \cup DigitChars \cup {"_"}
    \cup {Ch(OtherAlnum, i) : i \in 0..(Len(OtherAlnum) - 1)}
\* the class \s of re on a str pattern, and what str.strip() strips: str.isspace()
SpaceChars ==
    {" ", "\t", "\n", "\r", "\f"} \cup {Ch(OtherSpace, i) : i \in 0..(Len(OtherSpace) - 1)}

IsSpace(c) == c \in SpaceChars
\* the class \d of re: of U+0000-U+00FF the ten decimal digits
IsDigit(c) == c \in DigitChars
IsWord(c) == c \in WordChars

\* c.lower() for every letter c that has a lower case
LowerOf ==
    [c \in UpperChars |->
        Ch(LowerAlpha, CHOOSE i \in 0..(Len(UpperAlpha) - 1) : Ch(UpperAlpha, i) = c)]

LowerCh(c) == IF c \in UpperChars THEN LowerOf[c] ELSE c

RECURSIVE LowerFrom(_, _)
LowerFrom(s, k) == IF k >= Len(s) THEN "" ELSE LowerCh(Ch(s, k)) \o LowerFrom(s, k + 1)

\* s.lower()
Lower(s) == LowerFrom(s, 0)

RECURSIVE ReplaceFrom(_, _, _, _)
ReplaceFrom(s, k, old, new) ==
    IF k >= Len(s) THEN ""
    ELSE IF LitAt(s, k, old) THEN new \o ReplaceFrom(s, k + Len(old), old, new)
    ELSE Ch(s, k) \o ReplaceFrom(s, k + 1, old, new)

\* s.replace(old, new), old not empty: the occurrences left to right, not overlapping
Replace(s, old, new) == ReplaceFrom(s, 0, old, new)

\* s.strip()
Strip(s) ==
    LET keep == {k \in 0..(Len(s) - 1) : ~IsSpace(Ch(s, k))}
    IN  IF keep = {} THEN ""
        ELSE LET lo == CHOOSE k \in keep : \A j \in keep : k <= j
                 hi == CHOOSE k \in keep : \A j \in keep : k >= j
             IN  SubSeq(s, lo + 1, hi + 1)

\* int(c) for every decimal digit c
DigitOf == [c \in DigitChars |-> CHOOSE i \in 0..9 : Ch(Digits, i) = c]

RECURSIVE ToInt(_)
\* int(s) for a text of decimal digits
ToInt(s) ==
    IF Len(s) = 0 THEN 0
    ELSE 10 * ToInt(SubSeq(s, 1, Len(s) - 1)) + DigitOf[Ch(s, Len(s) - 1)]

---------------------------------------------------------------------------
(* re primitives                                                            *)

\* \b at offset k
WordB(s, k) == IsWord(Ch(s, k - 1)) # IsWord(Ch(s, k))

RECURSIVE SpaceRun(_, _)
\* the number of \s characters from offset k on: what a greedy \s* takes
SpaceRun(s, k) == IF IsSpace(Ch(s, k)) THEN 1 + SpaceRun(s, k + 1) ELSE 0

RECURSIVE DigitRun(_, _)
\* the number of \d characters from offset k on: what a greedy \d+ or \d* takes
DigitRun(s, k) == IF IsDigit(Ch(s, k)) THEN 1 + DigitRun(s, k + 1) ELSE 0

\* the least member of a non-empty set of offsets: re.search reports the leftmost match
Leftmost(S) == CHOOSE k \in S : \A j \in S : k <= j

\* a dict with no key
EmptyDict == [k \in {} |-> ""]

\* d[k] = v
DictSet(d, k, v) == (k :> v) @@ d

---------------------------------------------------------------------------
(* retrieve_specs: the query type and the criteria                          *)

ComparisonWords == {"compare", "versus", "vs", "difference", "better"}
RecommendationWords == {"best", "recommend", "which", "should i", "top"}
SpecsWords == {"spec", "feature", "detail", "what is", "what are", "tell me about"}

\* any(word in query_lower for word in words)
AnyWordIn(words, query_lower) == \E word \in words : Contains(query_lower, word)

\* the query type with the recommendation words tried before the comparison words
QueryTypeRecommendationFirst(query_lower) ==
    IF AnyWordIn(RecommendationWords, query_lower) THEN "recommendation"
    ELSE IF AnyWordIn(ComparisonWords, query_lower) THEN "comparison"
    ELSE IF AnyWordIn(SpecsWords, query_lower) THEN "specs"
    ELSE "general"

\* lines 241-248: the first word list with a word in the query decides
QueryType(query_lower) ==
    IF AnyWordIn(ComparisonWords, query_lower) THEN "comparison"
    ELSE IF AnyWordIn(RecommendationWords, query_lower) THEN "recommendation"
    ELSE IF AnyWordIn(SpecsWords, query_lower) THEN "specs"
    ELSE "general"

\* the offset of the digits in  word\s*\$?(\d+)  tried at offset k
PriceDigitsAt(s, k, word) ==
    IF Ch(s, k + Len(word) + SpaceRun(s, k + Len(word))) = "$"
    THEN k + Len(word) + SpaceRun(s, k + Len(word)) + 1
    ELSE k + Len(word) + SpaceRun(s, k + Len(word))

\* the offsets where  word\s*(\d+)  matches: the pattern without its optional dollar sign
PricePhraseStartsNoDollar(s, word) ==
    {k \in 0..Len(s) :
        /\ LitAt(s, k, word)
        /\ IsDigit(Ch(s, k + Len(word) + SpaceRun(s, k + Len(word))))}

\* the offsets where  word\s*\$?(\d+)  matches
PricePhraseStarts(s, word) ==
    {k \in 0..Len(s) : LitAt(s, k, word) /\ IsDigit(Ch(s, PriceDigitsAt(s, k, word)))}

\* int(s[b : the end of the digits from b on])
NumberFrom(s, b) == ToInt(SubSeq(s, b + 1, b + DigitRun(s, b)))

\* group(1) of re.search(word\s*\$?(\d+), s) as a number; only where the search matches
PricePhraseValue(s, word) ==
    NumberFrom(s, PriceDigitsAt(s, Leftmost(PricePhraseStarts(s, word)), word))

\* if re.search(word\s*\$?(\d+), query_lower): criteria['price_max'] = its number
SetPriceMax(query_lower, word, crit) ==
    IF PricePhraseStarts(query_lower, word) # {}
    THEN DictSet(crit, "price_max", PricePhraseValue(query_lower, word))
    ELSE crit

\* the price criteria with the "under" phrase written after the "below" phrase
PriceCriteriaUnderLast(query_lower, crit) ==
    SetPriceMax(query_lower, "under", SetPriceMax(query_lower, "below", crit))

\* lines 251-257: the "under" phrase sets price_max, then the "below" phrase sets it
PriceCriteria(query_lower, crit) ==
    SetPriceMax(query_lower, "below", SetPriceMax(query_lower, "under", crit))

\* if any(term in query_lower for term in terms): criteria['focus'] = focus
SetFocus(query_lower, terms, focus, crit) ==
    IF AnyWordIn(terms, query_lower) THEN DictSet(crit, "focus", focus) ELSE crit

BatteryTerms == {"battery", "long lasting"}
CameraTerms == {"camera", "photo", "photography"}
DisplayTerms == {"display", "screen"}

\* the focus as an if / elif chain: the first group with a term in the query decides
FocusCriteriaFirstWins(query_lower, crit) ==
    IF AnyWordIn(BatteryTerms, query_lower) THEN DictSet(crit, "focus", "battery")
    ELSE IF AnyWordIn(CameraTerms, query_lower) THEN DictSet(crit, "focus", "camera")
    ELSE IF AnyWordIn(DisplayTerms, query_lower) THEN DictSet(crit, "focus", "display")
    ELSE crit

\* lines 260-269: three independent ifs, each overwriting the focus
FocusCriteria(query_lower, crit) ==
    SetFocus(query_lower, DisplayTerms, "display",
        SetFocus(query_lower, CameraTerms, "camera",
            SetFocus(query_lower, BatteryTerms, "battery", crit)))

\* result['criteria'] once lines 250-269 have run
Criteria(query_lower) == FocusCriteria(query_lower, PriceCriteria(query_lower, EmptyDict))

---------------------------------------------------------------------------
(* extract_phone_names                                                      *)

\* the alternation (ultra|plus|\+|fe), in the order the engine tries it
SuffixWords == <<"ultra", "plus", "+", "fe">>

\* $ : the end of the text, or just before a final newline
AtEnd(s, k) == k = Len(s) \/ (k = Len(s) - 1 /\ Ch(s, k) = "\n")

\* the lookahead  \s*(ultra|plus|\+|fe)\b  succeeds at offset k
SuffixAhead(s, k) ==
    \E j \in 0..SpaceRun(s, k) : \E i \in 1..Len(SuffixWords) :
        /\ LitAt(s, k + j, SuffixWords[i])
        /\ WordB(s, k + j + Len(SuffixWords[i]))

\* (?:\s|$|,|\.|and|or|vs) matches at offset k
NameEnd(s, k) ==
    \/ IsSpace(Ch(s, k))
    \/ AtEnd(s, k)
    \/ Ch(s, k) = ","
    \/ Ch(s, k) = "."
    \/ LitAt(s, k, "and")
    \/ LitAt(s, k, "or")
    \/ LitAt(s, k, "vs")

\* re.search(r'\b' + re.escape(name) + r'(?!\s*(ultra|plus|\+|fe)\b)(?:\s|$|,|\.|and|or|vs)', s)
NameSearch(name, s) ==
    \E k \in 0..Len(s) :
        /\ WordB(s, k)
        /\ LitAt(s, k, name)
        /\ ~SuffixAhead(s, k + Len(name))
        /\ NameEnd(s, k + Len(name))

\* "+" written out, as .replace("+", "plus") does to a captured suffix
SuffixName(suffix) == Replace(suffix, "+", "plus")

\* re.search(r'^([sazn]\d+)\s*(ultra|plus|\+|fe)?$', core_name): ok, group(1), group(2) or ""
ModelMatch(core_name) ==
    LET d == DigitRun(core_name, 1)
        a == 1 + d + SpaceRun(core_name, 1 + d)
        alts == {i \in 1..Len(SuffixWords) :
                    /\ LitAt(core_name, a, SuffixWords[i])
                    /\ AtEnd(core_name, a + Len(SuffixWords[i]))}
        head == Ch(core_name, 0) \in {"s", "a", "z", "n"} /\ d >= 1
    IN  IF head /\ alts # {}
        THEN [ok |-> TRUE, num |-> SubSeq(core_name, 1, 1 + d),
              suffix |-> SuffixWords[CHOOSE i \in alts : \A j \in alts : i <= j]]
        ELSE IF head /\ AtEnd(core_name, a)
        THEN [ok |-> TRUE, num |-> SubSeq(core_name, 1, 1 + d), suffix |-> ""]
        ELSE [ok |-> FALSE, num |-> "", suffix |-> ""]

\* The ways  \s*(ultra|plus|\+|fe)?\b  can match from offset p, as <<j, i>>: j whitespace
\* characters taken, then alternative i of SuffixWords, or no suffix for i = 5.
SeriesTails(s, p) ==
    {c \in (0..SpaceRun(s, p)) \X (1..(Len(SuffixWords) + 1)) :
        IF c[2] <= Len(SuffixWords)
        THEN /\ LitAt(s, p + c[1], SuffixWords[c[2]])
             /\ WordB(s, p + c[1] + Len(SuffixWords[c[2]]))
        ELSE WordB(s, p + c[1])}

\* the one the engine finds first: the most whitespace, then the earliest alternative
FirstTail(T) == CHOOSE c \in T : \A e \in T : c[1] > e[1] \/ (c[1] = e[1] /\ c[2] <= e[2])

\* rf'\b{model_num}\s*(ultra|plus|\+|fe)?\b' matches with its start at offset k
SeriesAt(s, k, model_num) ==
    /\ WordB(s, k)
    /\ LitAt(s, k, model_num)
    /\ SeriesTails(s, k + Len(model_num)) # {}

RECURSIVE QuerySuffixes(_, _, _)
\* [qm.group(1) or "" for qm in re.finditer(query_pattern, s)], scanning from offset k
QuerySuffixes(s, k, model_num) ==
    IF k > Len(s) THEN <<>>
    ELSE IF SeriesAt(s, k, model_num)
    THEN LET p == k + Len(model_num)
             c == FirstTail(SeriesTails(s, p))
             suffix == IF c[2] <= Len(SuffixWords) THEN SuffixWords[c[2]] ELSE ""
         IN  <<suffix>> \o QuerySuffixes(s, p + c[1] + Len(suffix), model_num)
    ELSE QuerySuffixes(s, k + 1, model_num)

RECURSIVE SeriesScoreLoose(_, _)
\* the loop with a suffixed candidate of a bare query number scored as an exact match
SeriesScoreLoose(model_suffix, suffixes) ==
    IF suffixes = <<>> THEN 0
    ELSE LET query_suffix == SuffixName(Head(suffixes))
         IN  IF model_suffix = query_suffix THEN 90
             ELSE IF query_suffix # "" /\ model_suffix = ""
                  THEN SeriesScoreLoose(model_suffix, Tail(suffixes))
             ELSE IF query_suffix = "" /\ model_suffix # "" THEN 90
             ELSE SeriesScoreLoose(model_suffix, Tail(suffixes))

RECURSIVE SeriesScore(_, _)
\* the loop over query_matches: the score appended for the candidate, 0 when none is
SeriesScore(model_suffix, suffixes) ==
    IF suffixes = <<>> THEN 0
    ELSE LET query_suffix == SuffixName(Head(suffixes))
         IN  IF model_suffix = query_suffix THEN 90
             ELSE IF query_suffix # "" /\ model_suffix = ""
                  THEN SeriesScore(model_suffix, Tail(suffixes))
             ELSE IF query_suffix = "" /\ model_suffix # "" THEN 30
             ELSE SeriesScore(model_suffix, Tail(suffixes))

\* the alternation (fe|special)
VariantWords == <<"fe", "special">>

\* re.search(r'^z\s*(fold|flip)\s*(\d+)?\s*(fe|special)?$', core_name)
FoldMatch(core_name) ==
    LET a == 1 + SpaceRun(core_name, 1)
        series == IF LitAt(core_name, a, "fold") THEN "fold"
                  ELSE IF LitAt(core_name, a, "flip") THEN "flip" ELSE ""
        b == a + 4 + SpaceRun(core_name, a + 4)
        d == DigitRun(core_name, b)
        c == b + d + SpaceRun(core_name, b + d)
        alts == {i \in 1..Len(VariantWords) :
                    /\ LitAt(core_name, c, VariantWords[i])
                    /\ AtEnd(core_name, c + Len(VariantWords[i]))}
        head == Ch(core_name, 0) = "z" /\ series # ""
        version == SubSeq(core_name, b + 1, b + d)
    IN  IF head /\ alts # {}
        THEN [ok |-> TRUE, series_type |-> series, version |-> version,
              variant |-> VariantWords[CHOOSE i \in alts : TRUE]]
        ELSE IF head /\ AtEnd(core_name, c)
        THEN [ok |-> TRUE, series_type |-> series, version |-> version, variant |-> ""]
        ELSE [ok |-> FALSE, series_type |-> "", version |-> "", variant |-> ""]

\* The ways to take  \s*(\d+)?\s*(fe|special)?  from offset p, as <<j, d, h, i>>:
\* j whitespace characters, d digits (0: no version), h whitespace characters, then
\* alternative i of VariantWords, or no variant for i = 3.
FoldTails(s, p) ==
    UNION {UNION {{<<j, d, h, i>> : h \in 0..SpaceRun(s, p + j + d),
                                   i \in 1..(Len(VariantWords) + 1)} :
                  d \in 0..DigitRun(s, p + j)} :
           j \in 0..SpaceRun(s, p)}

\* the ones of them that end at a word boundary: the matches
FoldMatches(s, p) ==
    {c \in FoldTails(s, p) :
        LET q == p + c[1] + c[2] + c[3]
        IN  IF c[4] <= Len(VariantWords)
            THEN LitAt(s, q, VariantWords[c[4]]) /\ WordB(s, q + Len(VariantWords[c[4]]))
            ELSE WordB(s, q)}

\* c is tried before e: greedy whitespace, greedy digits, greedy whitespace, then the
\* alternatives in order and the empty variant last
TriedBefore(c, e) ==
    \/ c[1] > e[1]
    \/ c[1] = e[1] /\ c[2] > e[2]
    \/ c[1] = e[1] /\ c[2] = e[2] /\ c[3] > e[3]
    \/ c[1] = e[1] /\ c[2] = e[2] /\ c[3] = e[3] /\ c[4] <= e[4]

\* the offset after  z\s*{series_type}  when that matches at a word boundary at k, else -1
FoldHead(s, k, series_type) ==
    LET a == k + 1 + SpaceRun(s, k + 1)
    IN  IF WordB(s, k) /\ Ch(s, k) = "z" /\ LitAt(s, a, series_type)
        THEN a + Len(series_type) ELSE -1

\* the offsets where  \bz\s*{series_type}\s*(\d+)?\s*(fe|special)?\b  matches
FoldStarts(s, series_type) ==
    {k \in 0..Len(s) :
        /\ FoldHead(s, k, series_type) >= 0
        /\ FoldMatches(s, FoldHead(s, k, series_type)) # {}}

\* the one the engine finds first
FirstFold(T) == CHOOSE x \in T : \A e \in T : TriedBefore(x, e)

\* group(1) or "", group(2) or "" of the match whose tail c starts at offset p
FoldGroups(s, p, c) ==
    [ok |-> TRUE,
     version |-> SubSeq(s, p + c[1] + 1, p + c[1] + c[2]),
     variant |-> IF c[4] <= Len(VariantWords) THEN VariantWords[c[4]] ELSE ""]

\* the groups of the match whose tail starts at offset p
FoldFrom(s, p) == FoldGroups(s, p, FirstFold(FoldMatches(s, p)))

\* re.search(rf'\bz\s*{series_type}\s*(\d+)?\s*(fe|special)?\b', s): ok, group(1) or "", group(2) or ""
FoldQuery(s, series_type) ==
    IF FoldStarts(s, series_type) = {} THEN [ok |-> FALSE, version |-> "", variant |-> ""]
    ELSE FoldFrom(s, FoldHead(s, Leftmost(FoldStarts(s, series_type)), series_type))

\* the score with the variant left out of the comparison
FoldCompareVariantBlind(fold, qf) ==
    IF ~qf.ok THEN 0
    ELSE IF fold.version = qf.version THEN 90
    ELSE 0

\* lines 89-98: the score for the candidate's groups fold and the query's groups qf
FoldCompare(fold, qf) ==
    IF ~qf.ok THEN 0
    ELSE IF fold.version = qf.version /\ fold.variant = qf.variant THEN 90
    ELSE IF fold.version = qf.version /\ qf.variant = "" /\ fold.variant = "" THEN 90
    ELSE IF fold.version = qf.version /\ qf.variant = "" THEN 40
    ELSE 0

\* lines 86-98: the score appended for a Z Fold / Z Flip candidate, 0 when none is
FoldScore(fold, query_normalized) ==
    FoldCompare(fold, FoldQuery(query_normalized, fold.series_type))

\* name_lower.replace("galaxy ", "").strip()
CoreName(name_lower) == Strip(Replace(name_lower, "galaxy ", ""))

\* lines 52-98: the score by the series pattern or the Z Fold / Z Flip pattern
PatternScore(model, fold, query_normalized) ==
    IF model.ok
    THEN SeriesScore(SuffixName(model.suffix), QuerySuffixes(query_normalized, 0, model.num))
    ELSE IF fold.ok THEN FoldScore(fold, query_normalized)
    ELSE 0

\* lines 44-98: the score of a candidate not matched by its full name
CoreScore(core_name, query_normalized) ==
    IF NameSearch(core_name, query_normalized) THEN 95
    ELSE PatternScore(ModelMatch(core_name), FoldMatch(core_name), query_normalized)

\* lines 36-98: the score of the candidate whose lowered name is name_lower
LoweredScore(name_lower, query_normalized) ==
    IF NameSearch(name_lower, query_normalized) THEN 100
    ELSE CoreScore(CoreName(name_lower), query_normalized)

\* the body of the loop over phone_names: the score appended for phone_name, 0 when none is
NameScore(phone_name, query_normalized) == LoweredScore(Lower(phone_name), query_normalized)

\* query.lower().replace("samsung ", "")
QueryNormalized(q) == Replace(Lower(q), "samsung ", "")

\* matched_phones.append((phone_name, score)) when a score was given
AppendMatch(phone_name, score, rest) ==
    IF score > 0 THEN <<[name |-> phone_name, score |-> score]>> \o rest ELSE rest

RECURSIVE MatchedPhones(_, _)
\* matched_phones after the loop over phone_names
MatchedPhones(phone_names, query_normalized) ==
    IF phone_names = <<>> THEN <<>>
    ELSE AppendMatch(Head(phone_names), NameScore(Head(phone_names), query_normalized),
                     MatchedPhones(Tail(phone_names), query_normalized))

RECURSIVE InsertByScore(_, _)
\* x put into a list sorted by descending score, after the entries that score the same
InsertByScore(x, sorted) ==
    IF sorted = <<>> THEN <<x>>
    ELSE IF Head(sorted).score >= x.score THEN <<Head(sorted)>> \o InsertByScore(x, Tail(sorted))
    ELSE <<x>> \o sorted

RECURSIVE SortByScore(_)
\* list.sort(key=score, reverse=True): descending, entries of equal score keep their order
SortByScore(list) ==
    IF list = <<>> THEN <<>>
    ELSE InsertByScore(list[Len(list)], SortByScore(SubSeq(list, 1, Len(list) - 1)))

RECURSIVE UniqueAtLeast(_, _, _)
\* the names of the entries with score >= floor that are not in seen, each once
UniqueAtLeast(sorted, floor, seen) ==
    IF sorted = <<>> THEN <<>>
    ELSE IF Head(sorted).score >= floor /\ Head(sorted).name \notin seen
         THEN <<Head(sorted).name>>
              \o UniqueAtLeast(Tail(sorted), floor, seen \cup {Head(sorted).name})
    ELSE UniqueAtLeast(Tail(sorted), floor, seen)

\* the selection with the weak matches returned after the strong ones
SelectSortedWeakToo(sorted) == UniqueAtLeast(sorted, 30, {})

\* lines 103-117: the names at 80 or more, or else the names at 30 or more
SelectSorted(sorted) ==
    IF UniqueAtLeast(sorted, 80, {}) = <<>>
    THEN UniqueAtLeast(sorted, 30, {})
    ELSE UniqueAtLeast(sorted, 80, {})

\* lines 100-119: the list extract_phone_names returns
SelectPhones(matched) == SelectSorted(SortByScore(matched))

\* [p.model_name for p in phones]
PhoneNames(rows) == [i \in 1..Len(rows) |-> rows[i].model_name]

---------------------------------------------------------------------------
(* The phones table                                                         *)

\* None, the value to_dict gives for a NULL column: a text no column holds
None == "<None>"

\* a row of the phones table as to_dict renders it, with the columns the core reads
\* (id, body and url are read nowhere); release_date and os as scrape_phone_details
\* leaves them when the page does not give them
Phone(model_name, display, battery, camera, ram, storage, price, chipset) ==
    [model_name |-> model_name, release_date |-> "N/A", display |-> display,
     battery |-> battery, camera |-> camera, ram |-> ram, storage |-> storage,
     price |-> price, chipset |-> chipset, os |-> "N/A"]

\* phone.get(key, default)
Get(phone, key, default) == IF key \in DOMAIN phone THEN phone[key] ELSE default

\* the rows populate_with_sample_data inserts, in insertion order, each with its release
\* date and operating system
SampleCatalog == <<
    [Phone("Samsung Galaxy S25 Ultra", "6.9 inches, Dynamic AMOLED 2X, 120Hz, 1440 x 3120 pixels",
           "5000 mAh, 45W wired charging, 15W wireless",
           "200 MP main | 50 MP periscope telephoto | 10 MP telephoto | 12 MP ultrawide",
           "12/16 GB", "256GB/512GB/1TB", "$1299 / €1449", "Snapdragon 8 Elite")
     EXCEPT !.release_date = "February 2025", !.os = "Android 15, One UI 7"],
    [Phone("Samsung Galaxy S25+", "6.7 inches, Dynamic AMOLED 2X, 120Hz, 1440 x 3120 pixels",
           "4900 mAh, 45W wired charging, 15W wireless",
           "50 MP main | 10 MP telephoto | 12 MP ultrawide",
           "12 GB", "256GB/512GB", "$999 / €1149", "Snapdragon 8 Elite")
     EXCEPT !.release_date = "February 2025", !.os = "Android 15, One UI 7"],
    [Phone("Samsung Galaxy S25", "6.2 inches, Dynamic AMOLED 2X, 120Hz, 1080 x 2340 pixels",
           "4000 mAh, 25W wired charging, 15W wireless",
           "50 MP main | 10 MP telephoto | 12 MP ultrawide",
           "12 GB", "128GB/256GB/512GB", "$799 / €899", "Snapdragon 8 Elite")
     EXCEPT !.release_date = "February 2025", !.os = "Android 15, One UI 7"],
    [Phone("Samsung Galaxy S24 Ultra", "6.8 inches, Dynamic AMOLED 2X, 120Hz, 1440 x 3120 pixels",
           "5000 mAh, 45W wired charging, 15W wireless",
           "200 MP main | 50 MP periscope telephoto | 10 MP telephoto | 12 MP ultrawide",
           "12 GB", "256GB/512GB/1TB", "$1299 / €1449", "Snapdragon 8 Gen 3")
     EXCEPT !.release_date = "January 2024", !.os = "Android 14, One UI 6.1"],
    [Phone("Samsung Galaxy S24+", "6.7 inches, Dynamic AMOLED 2X, 120Hz, 1440 x 3120 pixels",
           "4900 mAh, 45W wired charging, 15W wireless",
           "50 MP main | 10 MP telephoto | 12 MP ultrawide",
           "12 GB", "256GB/512GB", "$999 / €1149", "Snapdragon 8 Gen 3 / Exynos 2400")
     EXCEPT !.release_date = "January 2024", !.os = "Android 14, One UI 6.1"],
    [Phone("Samsung Galaxy S24", "6.2 inches, Dynamic AMOLED 2X, 120Hz, 1080 x 2340 pixels",
           "4000 mAh, 25W wired charging, 15W wireless",
           "50 MP main | 10 MP telephoto | 12 MP ultrawide",
           "8 GB", "128GB/256GB", "$799 / €899", "Snapdragon 8 Gen 3 / Exynos 2400")
     EXCEPT !.release_date = "January 2024", !.os = "Android 14, One UI 6.1"],
    [Phone("Samsung Galaxy S23 Ultra", "6.8 inches, Dynamic AMOLED 2X, 120Hz, 1440 x 3088 pixels",
           "5000 mAh, 45W wired charging, 15W wireless",
           "200 MP main | 10 MP periscope telephoto | 10 MP telephoto | 12 MP ultrawide",
           "8/12 GB", "256GB/512GB/1TB", "$1199 / €1399", "Snapdragon 8 Gen 2")
     EXCEPT !.release_date = "February 2023", !.os = "Android 13, One UI 5.1"],
    [Phone("Samsung Galaxy S23+", "6.6 inches, Dynamic AMOLED 2X, 120Hz, 1080 x 2340 pixels",
           "4700 mAh, 45W wired charging, 15W wireless",
           "50 MP main | 10 MP telephoto | 12 MP ultrawide",
           "8 GB", "256GB/512GB", "$999 / €1119", "Snapdragon 8 Gen 2")
     EXCEPT !.release_date = "February 2023", !.os = "Android 13, One UI 5.1"],
    [Phone("Samsung Galaxy S23", "6.1 inches, Dynamic AMOLED 2X, 120Hz, 1080 x 2340 pixels",
           "3900 mAh, 25W wired charging, 15W wireless",
           "50 MP main | 10 MP telephoto | 12 MP ultrawide",
           "8 GB", "128GB/256GB", "$799 / €949", "Snapdragon 8 Gen 2")
     EXCEPT !.release_date = "February 2023", !.os = "Android 13, One UI 5.1"],
    [Phone("Samsung Galaxy S22 Ultra", "6.8 inches, Dynamic AMOLED 2X, 120Hz, 1440 x 3088 pixels",
           "5000 mAh, 45W wired charging, 15W wireless",
           "108 MP main | 10 MP periscope telephoto | 10 MP telephoto | 12 MP ultrawide",
           "8/12 GB", "128GB/256GB/512GB/1TB", "$1199 / €1249", "Snapdragon 8 Gen 1 / Exynos 2200")
     EXCEPT !.release_date = "February 2022", !.os = "Android 12, One UI 4.1"],
    [Phone("Samsung Galaxy S22+", "6.6 inches, Dynamic AMOLED 2X, 120Hz, 1080 x 2340 pixels",
           "4500 mAh, 45W wired charging, 15W wireless",
           "50 MP main | 10 MP telephoto | 12 MP ultrawide",
           "8 GB", "128GB/256GB", "$999 / €1049", "Snapdragon 8 Gen 1 / Exynos 2200")
     EXCEPT !.release_date = "February 2022", !.os = "Android 12, One UI 4.1"],
    [Phone("Samsung Galaxy S22", "6.1 inches, Dynamic AMOLED 2X, 120Hz, 1080 x 2340 pixels",
           "3700 mAh, 25W wired charging, 15W wireless",
           "50 MP main | 10 MP telephoto | 12 MP ultrawide",
           "8 GB", "128GB/256GB", "$799 / €849", "Snapdragon 8 Gen 1 / Exynos 2200")
     EXCEPT !.release_date = "February 2022", !.os = "Android 12, One UI 4.1"],
    [Phone("Samsung Galaxy S21 Ultra", "6.8 inches, Dynamic AMOLED 2X, 120Hz, 1440 x 3200 pixels",
           "5000 mAh, 25W wired charging, 15W wireless",
           "108 MP main | 10 MP periscope telephoto | 10 MP telephoto | 12 MP ultrawide",
           "12/16 GB", "128GB/256GB/512GB", "$1199 / €1399", "Snapdragon 888 / Exynos 2100")
     EXCEPT !.release_date = "January 2021", !.os = "Android 11, One UI 3.1"],
    [Phone("Samsung Galaxy Z Fold 6", "7.6 inches foldable, Dynamic AMOLED 2X, 120Hz, 1856 x 2160 pixels",
           "4400 mAh, 25W wired charging, 15W wireless",
           "50 MP main | 10 MP telephoto | 12 MP ultrawide",
           "12 GB", "256GB/512GB/1TB", "$1899 / €1999", "Snapdragon 8 Gen 3")
     EXCEPT !.release_date = "July 2024", !.os = "Android 14, One UI 6.1.1"],
    [Phone("Samsung Galaxy Z Fold 5", "7.6 inches foldable, Dynamic AMOLED 2X, 120Hz, 1812 x 2176 pixels",
           "4400 mAh, 25W wired charging, 15W wireless",
           "50 MP main | 10 MP telephoto | 12 MP ultrawide",
           "12 GB", "256GB/512GB/1TB", "$1799 / €1899", "Snapdragon 8 Gen 2")
     EXCEPT !.release_date = "July 2023", !.os = "Android 13, One UI 5.1.1"],
    [Phone("Samsung Galaxy Z Fold 4", "7.6 inches foldable, Dynamic AMOLED 2X, 120Hz, 1812 x 2176 pixels",
           "4400 mAh, 25W wired charging, 15W wireless",
           "50 MP main | 10 MP telephoto | 12 MP ultrawide",
           "12 GB", "256GB/512GB/1TB", "$1799 / €1799", "Snapdragon 8+ Gen 1")
     EXCEPT !.release_date = "August 2022", !.os = "Android 12L, One UI 4.1.1"],
    [Phone("Samsung Galaxy Z Flip 6", "6.7 inches foldable, Dynamic AMOLED 2X, 120Hz, 1080 x 2640 pixels",
           "4000 mAh, 25W wired charging, 15W wireless",
           "50 MP main | 12 MP ultrawide",
           "12 GB", "256GB/512GB", "$1099 / €1199", "Snapdragon 8 Gen 3")
     EXCEPT !.release_date = "July 2024", !.os = "Android 14, One UI 6.1.1"],
    [Phone("Samsung Galaxy Z Flip 5", "6.7 inches foldable, Dynamic AMOLED 2X, 120Hz, 1080 x 2640 pixels",
           "3700 mAh, 25W wired charging, 15W wireless",
           "12 MP main | 12 MP ultrawide",
           "8 GB", "256GB/512GB", "$999 / €1199", "Snapdragon 8 Gen 2")
     EXCEPT !.release_date = "July 2023", !.os = "Android 13, One UI 5.1.1"],
    [Phone("Samsung Galaxy Z Flip 4", "6.7 inches foldable, Dynamic AMOLED 2X, 120Hz, 1080 x 2640 pixels",
           "3700 mAh, 25W wired charging, 15W wireless",
           "12 MP main | 12 MP ultrawide",
           "8 GB", "128GB/256GB/512GB", "$999 / €1099", "Snapdragon 8+ Gen 1")
     EXCEPT !.release_date = "August 2022", !.os = "Android 12, One UI 4.1.1"],
    [Phone("Samsung Galaxy A54 5G", "6.4 inches, Super AMOLED, 120Hz, 1080 x 2340 pixels",
           "5000 mAh, 25W wired charging",
           "50 MP main | 12 MP ultrawide | 5 MP macro",
           "8 GB", "128GB/256GB", "$449 / €489", "Exynos 1380")
     EXCEPT !.release_date = "March 2023", !.os = "Android 13, One UI 5.1"],
    [Phone("Samsung Galaxy A53 5G", "6.5 inches, Super AMOLED, 120Hz, 1080 x 2400 pixels",
           "5000 mAh, 25W wired charging",
           "64 MP main | 12 MP ultrawide | 5 MP macro | 5 MP depth",
           "6/8 GB", "128GB/256GB", "$449 / €449", "Exynos 1280")
     EXCEPT !.release_date = "March 2022", !.os = "Android 12, One UI 4.1"],
    [Phone("Samsung Galaxy A34 5G", "6.6 inches, Super AMOLED, 120Hz, 1080 x 2340 pixels",
           "5000 mAh, 25W wired charging",
           "48 MP main | 8 MP ultrawide | 5 MP macro",
           "6/8 GB", "128GB/256GB", "$399 / €389", "MediaTek Dimensity 1080")
     EXCEPT !.release_date = "March 2023", !.os = "Android 13, One UI 5.1"],
    [Phone("Samsung Galaxy A73 5G", "6.7 inches, Super AMOLED Plus, 120Hz, 1080 x 2400 pixels",
           "5000 mAh, 25W wired charging",
           "108 MP main | 12 MP ultrawide | 5 MP macro | 5 MP depth",
           "6/8 GB", "128GB/256GB", "$499 / €509", "Snapdragon 778G")
     EXCEPT !.release_date = "April 2022", !.os = "Android 12, One UI 4.1"],
    [Phone("Samsung Galaxy Note 20 Ultra", "6.9 inches, Dynamic AMOLED 2X, 120Hz, 1440 x 3088 pixels",
           "4500 mAh, 25W wired charging, 15W wireless",
           "108 MP main | 12 MP periscope telephoto | 12 MP ultrawide",
           "12 GB", "128GB/512GB", "$1299 / €1299", "Snapdragon 865+ / Exynos 990")
     EXCEPT !.release_date = "August 2020", !.os = "Android 10, One UI 2.5"],
    [Phone("Samsung Galaxy Note 20", "6.7 inches, Super AMOLED Plus, 60Hz, 1080 x 2400 pixels",
           "4300 mAh, 25W wired charging, 15W wireless",
           "64 MP main | 12 MP ultrawide | 12 MP telephoto",
           "8 GB", "128GB/256GB", "$999 / €949", "Snapdragon 865+ / Exynos 990")
     EXCEPT !.release_date = "August 2020", !.os = "Android 10, One UI 2.5"],
    [Phone("Samsung Galaxy S20 Ultra", "6.9 inches, Dynamic AMOLED 2X, 120Hz, 1440 x 3200 pixels",
           "5000 mAh, 45W wired charging, 15W wireless",
           "108 MP main | 48 MP periscope telephoto | 12 MP ultrawide",
           "12/16 GB", "128GB/256GB/512GB", "$1399 / €1349", "Snapdragon 865 / Exynos 990")
     EXCEPT !.release_date = "March 2020", !.os = "Android 10, One UI 2.0"],
    [Phone("Samsung Galaxy S20+", "6.7 inches, Dynamic AMOLED 2X, 120Hz, 1440 x 3200 pixels",
           "4500 mAh, 25W wired charging, 15W wireless",
           "64 MP main | 12 MP ultrawide | 12 MP telephoto",
           "8/12 GB", "128GB/256GB/512GB", "$1199 / €1099", "Snapdragon 865 / Exynos 990")
     EXCEPT !.release_date = "March 2020", !.os = "Android 10, One UI 2.0"],
    [Phone("Samsung Galaxy S20", "6.2 inches, Dynamic AMOLED 2X, 120Hz, 1440 x 3200 pixels",
           "4000 mAh, 25W wired charging, 15W wireless",
           "64 MP main | 12 MP ultrawide | 12 MP telephoto",
           "8/12 GB", "128GB", "$999 / €899", "Snapdragon 865 / Exynos 990")
     EXCEPT !.release_date = "March 2020", !.os = "Android 10, One UI 2.0"],
    [Phone("Samsung Galaxy A55 5G", "6.6 inches, Super AMOLED, 120Hz, 1080 x 2340 pixels",
           "5000 mAh, 25W wired charging",
           "50 MP main | 12 MP ultrawide | 5 MP macro",
           "8/12 GB", "128GB/256GB", "$449 / €479", "Exynos 1480")
     EXCEPT !.release_date = "March 2024", !.os = "Android 14, One UI 6.1"],
    [Phone("Samsung Galaxy A35 5G", "6.6 inches, Super AMOLED, 120Hz, 1080 x 2340 pixels",
           "5000 mAh, 25W wired charging",
           "50 MP main | 8 MP ultrawide | 5 MP macro",
           "6/8 GB", "128GB/256GB", "$399 / €369", "Exynos 1380")
     EXCEPT !.release_date = "March 2024", !.os = "Android 14, One UI 6.1"]>>

---------------------------------------------------------------------------
(* _score_phone and _prepare_recommendations                                *)

\* the offsets where  (\d+)\s*unit  matches in text
UnitStarts(text, unit) ==
    {k \in 0..Len(text) :
        /\ IsDigit(Ch(text, k))
        /\ LET e == k + DigitRun(text, k)
           IN  LitAt(text, e + SpaceRun(text, e), unit)}

\* int(group(1)) of re.search(r'(\d+)\s*unit', text); only where the search matches
UnitValue(text, unit) ==
    LET k == Leftmost(UnitStarts(text, unit))
    IN  ToInt(SubSeq(text, k + 1, k + DigitRun(text, k)))

\* the offsets where  \$(\d+)  matches in text
DollarStarts(text) == {k \in 0..Len(text) : Ch(text, k) = "$" /\ IsDigit(Ch(text, k + 1))}

\* float(group(1)) of re.search(r'\$(\d+)', text); only where the search matches
DollarValue(text) ==
    LET k == Leftmost(DollarStarts(text))
    IN  ToInt(SubSeq(text, k + 2, k + 1 + DigitRun(text, k + 1)))

\* int(group(1)) of re.search(r'(\d+)\s*unit', text, re.IGNORECASE), 0 when there is no match
UnitAmount(text, unit) ==
    IF UnitStarts(Lower(text), unit) # {} THEN UnitValue(Lower(text), unit) ELSE 0

---------------------------------------------------------------------------
(* Python float arithmetic                                                  *)

\* A float is held exactly, as a sign and a magnitude of six digits:
\* [neg, mag] is (-1)^neg * (mag[1] + mag[2] / 65536 + ... + mag[6] / 65536^5).  The
\* first digit is the whole integer part and has no upper limit of its own, the
\* other five are digits of base 65536.  Every double of magnitude from 2^-27 to
\* below 2^31 has this form, and so has every sum and difference of two of them
\* that stays below 2^31; an operation rounds its exact result to 53 significant
\* bits, to nearest and on a tie to even, as the IEEE 754 double does.
Digit == 65536

FloatOfInt(n) == [neg |-> n < 0, mag |-> <<IF n < 0 THEN 0 - n ELSE n, 0, 0, 0, 0, 0>>]

RECURSIVE BitLength(_)
\* n.bit_length()
BitLength(n) == IF n = 0 THEN 0 ELSE 1 + BitLength(n \div 2)

\* the first digit that is not 0; 0 when the magnitude is 0
TopDigit(mag) ==
    IF \A i \in 1..6 : mag[i] = 0 THEN 0
    ELSE CHOOSE i \in 1..6 : mag[i] # 0 /\ \A j \in 1..(i - 1) : mag[j] = 0

RECURSIVE AddUnit(_, _, _)
\* the magnitude plus unit at digit c, the carry taken to the digits before it; the
\* first digit takes every carry
AddUnit(mag, c, unit) ==
    IF c = 1 \/ mag[c] + unit < Digit THEN [mag EXCEPT ![c] = @ + unit]
    ELSE AddUnit([mag EXCEPT ![c] = @ + unit - Digit], c - 1, 1)

\* the magnitude cut after the bit of weight unit in digit c
Truncated(mag, c, unit) ==
    [i \in 1..6 |-> IF i < c THEN mag[i] ELSE IF i = c THEN mag[c] - (mag[c] % unit) ELSE 0]

\* what is cut off is more than half a unit, or half a unit and the last bit kept is 1;
\* sticky: the exact value has bits beyond the sixth digit
RoundsUp(mag, sticky, c, unit) ==
    \/ 2 * (mag[c] % unit) > unit
    \/ /\ 2 * (mag[c] % unit) = unit
       /\ \/ sticky
          \/ \E j \in (c + 1)..6 : mag[j] # 0
          \/ IF unit = Digit THEN mag[c - 1] % 2 = 1 ELSE (mag[c] \div unit) % 2 = 1

\* the magnitude rounded to the bit of weight unit in digit c
RoundedAt(mag, sticky, c, unit) ==
    IF c > 6 THEN mag
    ELSE IF RoundsUp(mag, sticky, c, unit) THEN AddUnit(Truncated(mag, c, unit), c, unit)
    ELSE Truncated(mag, c, unit)

\* 53 bits are kept from the first 1: the bits of the top digit, whole digits, and the
\* first bits of the digit after them
RoundedFrom(mag, sticky, top, bits) ==
    RoundedAt(mag, sticky, top + ((53 - bits) \div 16) + 1, 2 ^ (16 - ((53 - bits) % 16)))

\* the magnitude of the double nearest to the exact magnitude
Round53(mag, sticky) ==
    IF TopDigit(mag) = 0 THEN mag
    ELSE RoundedFrom(mag, sticky, TopDigit(mag), BitLength(mag[TopDigit(mag)]))

RECURSIVE DivDigits(_, _, _)
\* the next n digits of r / q, for a remainder r < q
DivDigits(r, q, n) ==
    IF n = 0 THEN <<>> ELSE <<(r * Digit) \div q>> \o DivDigits((r * Digit) % q, q, n - 1)

RECURSIVE DivRest(_, _, _)
\* the remainder after them
DivRest(r, q, n) == IF n = 0 THEN r ELSE DivRest((r * Digit) % q, q, n - 1)

\* p / q for ints p >= 0 and q > 0: the double nearest to the quotient
TrueDiv(p, q) ==
    [neg |-> FALSE,
     mag |-> Round53(<<p \div q>> \o DivDigits(p % q, q, 5), DivRest(p % q, q, 5) # 0)]

RECURSIVE CarryInto(_, _, _)
\* the carry out of the digits i..6 of a + b
CarryInto(a, b, i) == IF i > 6 THEN 0 ELSE (a[i] + b[i] + CarryInto(a, b, i + 1)) \div Digit

\* a + b: digit by digit with the carries, the first digit taking the carry into it
AddMag(a, b) ==
    [i \in 1..6 |-> IF i = 1 THEN a[1] + b[1] + CarryInto(a, b, 2)
                    ELSE (a[i] + b[i] + CarryInto(a, b, i + 1)) % Digit]

RECURSIVE BorrowInto(_, _, _)
\* the borrow out of the digits i..6 of a - b
BorrowInto(a, b, i) ==
    IF i > 6 THEN 0 ELSE IF a[i] - b[i] - BorrowInto(a, b, i + 1) < 0 THEN 1 ELSE 0

\* a - b for a >= b
SubMag(a, b) ==
    [i \in 1..6 |-> IF i = 1 THEN a[1] - b[1] - BorrowInto(a, b, 2)
                    ELSE (a[i] - b[i] - BorrowInto(a, b, i + 1) + Digit) % Digit]

MagLess(a, b) == \E i \in 1..6 : a[i] < b[i] /\ \A j \in 1..(i - 1) : a[j] = b[j]

\* x + y
FloatAdd(x, y) ==
    IF x.neg = y.neg THEN [neg |-> x.neg, mag |-> Round53(AddMag(x.mag, y.mag), FALSE)]
    ELSE IF x.mag = y.mag THEN FloatOfInt(0)
    ELSE IF MagLess(x.mag, y.mag)
    THEN [neg |-> y.neg, mag |-> Round53(SubMag(y.mag, x.mag), FALSE)]
    ELSE [neg |-> x.neg, mag |-> Round53(SubMag(x.mag, y.mag), FALSE)]

\* x < y
FloatLess(x, y) ==
    IF x.neg # y.neg THEN x.neg /\ (TopDigit(x.mag) # 0 \/ TopDigit(y.mag) # 0)
    ELSE IF x.neg THEN MagLess(y.mag, x.mag)
    ELSE MagLess(x.mag, y.mag)

\* x <= y
FloatLessEq(x, y) == ~FloatLess(y, x)

\* round(x * 1000) of a float x: the float in thousandths, to the nearest
Thousandths(x) ==
    (IF x.neg THEN -1 ELSE 1)
    * (x.mag[1] * 1000 + ((x.mag[2] * 1000 + ((x.mag[3] * 1000) \div Digit) + 32768) \div Digit))

RECURSIVE FloatSum(_, _)
\* score += term for every term in turn
FloatSum(score, terms) ==
    IF terms = <<>> THEN score ELSE FloatSum(FloatAdd(score, Head(terms)), Tail(terms))

---------------------------------------------------------------------------
(* _score_phone                                                             *)

\* lines 104-120: the battery, camera and RAM terms, in the order they are added; the
\* term of a column without a match is 0, and adding it changes nothing
BaseScore(phone) ==
    <<TrueDiv(UnitAmount(Get(phone, "battery", ""), "mah"), 1000),
      TrueDiv(UnitAmount(Get(phone, "camera", ""), "mp"), 50),
      TrueDiv(UnitAmount(Get(phone, "ram", ""), "gb"), 4)>>

\* the terms of the display focus: + 2 and then + 1
DisplayBonus(display) ==
    (IF Contains(Lower(display), "120hz") THEN <<FloatOfInt(2)>> ELSE <<>>)
    \o (IF Contains(Lower(display), "amoled") THEN <<FloatOfInt(1)>> ELSE <<>>)

\* the focus bonus with the battery bonus taken off instead of added
FocusBonusSubtracted(phone, focus) ==
    IF focus = "battery"
    THEN <<[neg |-> TRUE, mag |-> TrueDiv(UnitAmount(Get(phone, "battery", ""), "mah"), 500).mag]>>
    ELSE IF focus = "camera" THEN <<TrueDiv(UnitAmount(Get(phone, "camera", ""), "mp"), 25)>>
    ELSE IF focus = "display" THEN DisplayBonus(Get(phone, "display", ""))
    ELSE <<>>

\* lines 122-133: the terms of the focus area bonus
FocusBonus(phone, focus) ==
    IF focus = "battery" THEN <<TrueDiv(UnitAmount(Get(phone, "battery", ""), "mah"), 500)>>
    ELSE IF focus = "camera" THEN <<TrueDiv(UnitAmount(Get(phone, "camera", ""), "mp"), 25)>>
    ELSE IF focus = "display" THEN DisplayBonus(Get(phone, "display", ""))
    ELSE <<>>

\* lines 135-143: + 3 for a price within the budget, - 5 for one over it
BudgetAdjustment(phone, crit) ==
    IF "price_max" \in DOMAIN crit /\ DollarStarts(Get(phone, "price", "")) # {}
    THEN (IF DollarValue(Get(phone, "price", "")) <= crit["price_max"]
          THEN <<FloatOfInt(3)>> ELSE <<FloatOfInt(-5)>>)
    ELSE <<>>

\* re.search(..., None) and None.lower() raise: the call ends in an exception
ScoreRaises(phone, focus, crit) ==
    \/ Get(phone, "battery", "") = None
    \/ Get(phone, "camera", "") = None
    \/ Get(phone, "ram", "") = None
    \/ focus = "display" /\ Get(phone, "display", "") = None
    \/ "price_max" \in DOMAIN crit /\ Get(phone, "price", "") = None

\* the score, or raised when the call ends in an exception
_score_phone(phone, focus, crit) ==
    IF ScoreRaises(phone, focus, crit) THEN [raised |-> TRUE, score |-> FloatOfInt(0)]
    ELSE [raised |-> FALSE,
          score |-> FloatSum(FloatOfInt(0), BaseScore(phone) \o FocusBonus(phone, focus)
                                            \o BudgetAdjustment(phone, crit))]

\* criteria.get('focus', 'overall')
FocusOf(crit) == Get(crit, "focus", "overall")

\* [self._score_phone(phone, focus, criteria) for phone in phones]
ScoreAll(list, crit) == [i \in 1..Len(list) |-> _score_phone(list[i], FocusOf(crit), crit)]

\* s[:n]
Take(s, n) == SubSeq(s, 1, IF Len(s) < n THEN Len(s) ELSE n)

\* scored_phones: the (phone, score) pairs
ScoredPhones(list, outcome) ==
    [i \in 1..Len(list) |-> [phone |-> list[i], score |-> outcome[i].score]]

RECURSIVE InsertRanked(_, _)
InsertRanked(x, sorted) ==
    IF sorted = <<>> THEN <<x>>
    ELSE IF ~FloatLess(Head(sorted).score, x.score)
    THEN <<Head(sorted)>> \o InsertRanked(x, Tail(sorted))
    ELSE <<x>> \o sorted

RECURSIVE SortRanked(_)
\* scored_phones.sort(key=lambda x: x[1], reverse=True): the float scores descending,
\* pairs of equal score in their order
SortRanked(list) ==
    IF list = <<>> THEN <<>>
    ELSE InsertRanked(list[Len(list)], SortRanked(SubSeq(list, 1, Len(list) - 1)))

\* the picks with a fourth record let through
TopPicksFour(sorted) == [i \in 1..Len(Take(sorted, 4)) |-> sorted[i].phone]

\* [p[0] for p in scored_phones[:3]]
TopPicks(sorted) == [i \in 1..Len(Take(sorted, 3)) |-> sorted[i].phone]

\* lines 92-96 for the outcomes of scoring; raised when scoring a record raised
RankScored(list, outcome) ==
    IF \E i \in 1..Len(list) : outcome[i].raised
    THEN [raised |-> TRUE, top_picks |-> <<>>]
    ELSE [raised |-> FALSE, top_picks |-> TopPicks(SortRanked(ScoredPhones(list, outcome)))]

\* recommendations['top_picks']; raised when scoring a record raises
_prepare_recommendations(list, crit) == RankScored(list, ScoreAll(list, crit))

---------------------------------------------------------------------------
(* _prepare_comparison                                                      *)

\* specs_to_compare
SpecsToCompare == <<"display", "battery", "camera", "ram", "storage", "chipset", "price">>

\* the comparison with every attribute reported, the equal ones too
DifferencesOfAll(specs, phone1, phone2) ==
    [i \in 1..Len(SpecsToCompare) |->
        [spec |-> SpecsToCompare[i],
         phone1_value |-> Get(phone1, SpecsToCompare[i], "N/A"),
         phone2_value |-> Get(phone2, SpecsToCompare[i], "N/A")]]

\* the entries with the first record's value in both places
DifferencesFirstTwice(specs, phone1, phone2) ==
    [i \in 1..Len(specs) |->
        [spec |-> specs[i],
         phone1_value |-> Get(phone1, specs[i], "N/A"),
         phone2_value |-> Get(phone1, specs[i], "N/A")]]

\* lines 68-72: the entries appended for the attributes specs, in their order
Differences(specs, phone1, phone2) ==
    [i \in 1..Len(specs) |->
        [spec |-> specs[i],
         phone1_value |-> Get(phone1, specs[i], "N/A"),
         phone2_value |-> Get(phone2, specs[i], "N/A")]]

\* the dict _prepare_comparison returns: {} for fewer than two records
_prepare_comparison(list) ==
    IF Len(list) < 2 THEN EmptyDict
    ELSE [phone1 |-> list[1], phone2 |-> list[2],
          differences |->
              Differences(SelectSeq(SpecsToCompare,
                                    LAMBDA spec : Get(list[1], spec, None) # Get(list[2], spec, None)),
                          list[1], list[2])]

---------------------------------------------------------------------------
(* The lookups of the record store                                          *)

\* .first(): the index of the first of the rows at the indices hits, 0 for None
FirstRow(hits) == IF hits = {} THEN 0 ELSE Leftmost(hits)

\* lines 126-128: the first row whose lowered name is the lowered name looked up
ExactRow(name, rows) ==
    FirstRow({i \in 1..Len(rows) : Lower(rows[i].model_name) = Lower(name)})

\* lines 134-136 and 144-146: the first row whose lowered name contains the text.  The
\* texts looked up hold no LIKE wildcard (% or _), so contains() is the substring test.
ContainsRow(text, rows) ==
    FirstRow({i \in 1..Len(rows) : Contains(Lower(rows[i].model_name), text)})

\* line 142: the name without "samsung" and "galaxy"
SearchTerms(name) == Strip(Replace(Replace(Lower(name), "samsung", ""), "galaxy", ""))

\* the index of the row get_phone_by_name returns over one table, 0 for None
get_phone_by_name(name, rows) ==
    IF ExactRow(name, rows) # 0 THEN ExactRow(name, rows)
    ELSE IF ContainsRow(Lower(name), rows) # 0 THEN ContainsRow(Lower(name), rows)
    ELSE IF SearchTerms(name) # "" THEN ContainsRow(SearchTerms(name), rows)
    ELSE 0

RECURSIVE NumberRun(_, _)
\* the number of characters from offset k on that are digits or commas: a greedy [\d,]+
NumberRun(s, k) ==
    IF IsDigit(Ch(s, k)) \/ Ch(s, k) = "," THEN 1 + NumberRun(s, k + 1) ELSE 0

\* the offsets where  sign\s*([\d,]+\.?\d*)  matches in s
AmountStarts(s, sign) ==
    {k \in 0..Len(s) :
        /\ LitAt(s, k, sign)
        /\ NumberRun(s, k + Len(sign) + SpaceRun(s, k + Len(sign))) >= 1}

RECURSIVE Pow10(_)
Pow10(n) == IF n = 0 THEN 1 ELSE 10 * Pow10(n - 1)

\* float(whole + '.' + frac): the value num / den, or raised for a text with no digit.
\* Exact while the text has at most 15 digits.
AmountOf(whole, frac) ==
    IF whole = "" /\ frac = ""
    THEN [kind |-> "raised", num |-> 0, den |-> 1]
    ELSE [kind |-> "value", num |-> ToInt(whole \o frac), den |-> Pow10(Len(frac))]

\* what  \.?\d*  takes after offset e: the digits after the point
FractionAt(s, e) ==
    IF Ch(s, e) = "." THEN SubSeq(s, e + 2, e + 1 + DigitRun(s, e + 1)) ELSE ""

\* float(group(1).replace(',', '')) for the group that starts at offset b
AmountAt(s, b) ==
    AmountOf(Replace(SubSeq(s, b + 1, b + NumberRun(s, b)), ",", ""),
             FractionAt(s, b + NumberRun(s, b)))

\* the offset after  sign\s*  tried at offset k
AmountDigitsAt(s, k, sign) == k + Len(sign) + SpaceRun(s, k + Len(sign))

\* float(group(1).replace(',', '')) of the leftmost match of  sign\s*([\d,]+\.?\d*)
AmountValue(s, sign) == AmountAt(s, AmountDigitsAt(s, Leftmost(AmountStarts(s, sign)), sign))

\* the sign of the second pattern of _extract_price: the three characters a-circumflex,
\* U+201A and the not sign, the second written here as its escape
EuroSign == "â\\u201a¬"

\* the price of a price text: a value, none for None, or raised
_extract_price(price_str) ==
    IF price_str = None \/ price_str = "" \/ price_str = "N/A"
    THEN [kind |-> "none", num |-> 0, den |-> 1]
    ELSE IF AmountStarts(price_str, "$") # {} THEN AmountValue(price_str, "$")
    ELSE IF AmountStarts(price_str, EuroSign) # {} THEN AmountValue(price_str, EuroSign)
    ELSE [kind |-> "none", num |-> 0, den |-> 1]

\* the capacity of a battery or RAM text before unit, 0 for None
ExtractUnit(text, unit) ==
    IF text = None \/ text = "" \/ text = "N/A" THEN 0 ELSE UnitAmount(text, unit)

\* price and price <= price_max
WithinPrice(price, price_max) ==
    price.kind = "value" /\ price.num # 0 /\ price.num <= price_max * price.den

\* value and value >= least
AtLeast(value, least) == value # 0 /\ value >= least

\* search_phones_by_criteria ends in an exception: a price text makes float() raise
SearchRaises(crit, rows) ==
    /\ "price_max" \in DOMAIN crit
    /\ \E i \in 1..Len(rows) : _extract_price(rows[i].price).kind = "raised"

\* the rows search_phones_by_criteria returns, when it returns
search_phones_by_criteria(crit, rows) ==
    IF "price_max" \in DOMAIN crit
    THEN SelectSeq(rows, LAMBDA row : WithinPrice(_extract_price(row.price), crit["price_max"]))
    ELSE IF "battery_min" \in DOMAIN crit
    THEN SelectSeq(rows, LAMBDA row : AtLeast(ExtractUnit(row.battery, "mah"), crit["battery_min"]))
    ELSE IF "ram_min" \in DOMAIN crit
    THEN SelectSeq(rows, LAMBDA row : AtLeast(ExtractUnit(row.ram, "gb"), crit["ram_min"]))
    ELSE rows

\* get_phone_by_name for every mentioned name, in order
FoundRows(mentioned, rows) == [i \in 1..Len(mentioned) |-> get_phone_by_name(mentioned[i], rows)]

\* the rows at the indices found, the names not found (0) skipped
PickRows(rows, found) ==
    [i \in 1..Len(SelectSeq(found, LAMBDA r : r # 0)) |-> rows[SelectSeq(found, LAMBDA r : r # 0)[i]]]

\* lines 274-286 end in an exception: the price filter raises
FetchRaises(mentioned, crit, rows) ==
    /\ mentioned = <<>>
    /\ "price_max" \in DOMAIN crit
    /\ SearchRaises([price_max |-> crit["price_max"]], rows)

\* the fetch with the price filter tried before the names
FetchPhonesPriceFirst(mentioned, type, crit, rows) ==
    IF "price_max" \in DOMAIN crit
    THEN Take(search_phones_by_criteria([price_max |-> crit["price_max"]], rows), 10)
    ELSE IF mentioned # <<>> THEN PickRows(rows, FoundRows(mentioned, rows))
    ELSE IF type = "recommendation" THEN rows
    ELSE <<>>

\* result['phones'] of retrieve_specs, when it returns
FetchPhones(mentioned, type, crit, rows) ==
    IF mentioned # <<>> THEN PickRows(rows, FoundRows(mentioned, rows))
    ELSE IF "price_max" \in DOMAIN crit
    THEN Take(search_phones_by_criteria([price_max |-> crit["price_max"]], rows), 10)
    ELSE IF type = "recommendation" THEN rows
    ELSE <<>>

---------------------------------------------------------------------------
(* extract_data                                                             *)

\* the dict with the comparison attached for any number of records
extract_dataUnguarded(q, type, crit, list) ==
    [query |-> q, query_type |-> type, criteria |-> crit, phones |-> list,
     phone_count |-> Len(list)]
    @@ (IF type = "comparison"
        THEN [comparison_data |-> _prepare_comparison(list)]
        ELSE IF type = "recommendation"
        THEN [recommendation_data |->
                 [criteria |-> crit, candidates |-> list,
                  top_picks |-> _prepare_recommendations(list, crit).top_picks]]
        ELSE EmptyDict)

\* the dict extract_data returns, when _prepare_recommendations does not raise
extract_data(q, type, crit, list) ==
    [query |-> q, query_type |-> type, criteria |-> crit, phones |-> list,
     phone_count |-> Len(list)]
    @@ (IF type = "comparison" /\ Len(list) >= 2
        THEN [comparison_data |-> _prepare_comparison(list)]
        ELSE IF type = "recommendation"
        THEN [recommendation_data |->
                 [criteria |-> crit, candidates |-> list,
                  top_picks |-> _prepare_recommendations(list, crit).top_picks]]
        ELSE EmptyDict)

---------------------------------------------------------------------------
(* The templates of ReviewGeneratorAgent                                    *)

\* what an f-string shows for phone.get(key): the text, or None
Field(phone, key) == IF Get(phone, key, None) = None THEN "None" ELSE phone[key]

RECURSIVE IntText(_)
\* str(n) for an int n >= 0
IntText(n) ==
    IF n < 10 THEN SubSeq("0123456789", n + 1, n + 1)
    ELSE IntText(n \div 10) \o SubSeq("0123456789", (n % 10) + 1, (n % 10) + 1)

\* the outcome of a template that ends in an exception: a text no template renders
Raised == "<raised>"

\* The templates hold the signs the source file holds.  Four of them are written as
\* escapes here: U+0178, U+201C, U+201D, U+2039 and U+2019.

\* lines 272-290
_generate_specs_review(data) ==
    IF data.phones = <<>> THEN "No phones found matching your query."
    ELSE Field(data.phones[1], "model_name") \o " specifications:\n\n"
         \o "â€¢ Display: " \o Field(data.phones[1], "display") \o "\n"
         \o "â€¢ Battery: " \o Field(data.phones[1], "battery") \o "\n"
         \o "â€¢ Camera: " \o Field(data.phones[1], "camera") \o "\n"
         \o "â€¢ RAM: " \o Field(data.phones[1], "ram") \o "\n"
         \o "â€¢ Storage: " \o Field(data.phones[1], "storage") \o "\n"
         \o "â€¢ Chipset: " \o Field(data.phones[1], "chipset") \o "\n"
         \o "â€¢ OS: " \o Field(data.phones[1], "os") \o "\n"
         \o "â€¢ Price: " \o Field(data.phones[1], "price") \o "\n"
         \o "â€¢ Released: " \o Field(data.phones[1], "release_date")

\* lines 341-346 and 355-360: the sentence for the amounts a and b of the two records
Verdict(name1, name2, a, b, has, unit, tail, similar) ==
    IF a > b THEN name1 \o has \o IntText(a) \o unit \o " vs " \o IntText(b) \o unit \o tail
    ELSE IF b > a THEN name2 \o has \o IntText(b) \o unit \o " vs " \o IntText(a) \o unit \o tail
    ELSE similar

\* lines 334-346 and 348-360: re.search(r'(\d+)\s*unit', phone.get(key, '')) for both
\* records, which raises for None, and the sentence when both match, else no sentence
MeasuredAdvice(phone1, phone2, key, unit, has, tail, similar) ==
    IF Get(phone1, key, "") = None \/ Get(phone2, key, "") = None THEN Raised
    ELSE IF UnitStarts(Get(phone1, key, ""), unit) = {} \/ UnitStarts(Get(phone2, key, ""), unit) = {}
    THEN ""
    ELSE Verdict(Field(phone1, "model_name"), Field(phone2, "model_name"),
                 UnitValue(Get(phone1, key, ""), unit), UnitValue(Get(phone2, key, ""), unit),
                 has, unit, tail, similar)

\* lines 332-363: what follows the recommendation heading
ComparisonAdvice(phone1, phone2, focus, q) ==
    IF focus = "camera" \/ Contains(Lower(q), "photo")
    THEN MeasuredAdvice(phone1, phone2, "camera", "MP", " has a better camera (",
                        ") and is recommended for photography.",
                        "Both phones have similar camera capabilities. Consider other factors like price and features.")
    ELSE IF focus = "battery"
    THEN MeasuredAdvice(phone1, phone2, "battery", "mAh", " has better battery life (", ").",
                        "Both phones have similar battery capacity.")
    ELSE Field(phone1, "model_name")
         \o " is the newer model with improved overall performance and features."

\* lines 307-365 for the two records and what follows the recommendation heading
ComparisonText(phone1, phone2, advice) ==
    IF advice = Raised THEN Raised
    ELSE "Comparing " \o Field(phone1, "model_name") \o " vs " \o Field(phone2, "model_name") \o ":\n\n"
         \o "ð\\u0178\\u201c± Display:\n"
         \o "  â€¢ " \o Field(phone1, "model_name") \o ": " \o Field(phone1, "display") \o "\n"
         \o "  â€¢ " \o Field(phone2, "model_name") \o ": " \o Field(phone2, "display") \o "\n\n"
         \o "ð\\u0178\\u201d\\u2039 Battery:\n"
         \o "  â€¢ " \o Field(phone1, "model_name") \o ": " \o Field(phone1, "battery") \o "\n"
         \o "  â€¢ " \o Field(phone2, "model_name") \o ": " \o Field(phone2, "battery") \o "\n\n"
         \o "ð\\u0178\\u201c· Camera:\n"
         \o "  â€¢ " \o Field(phone1, "model_name") \o ": " \o Field(phone1, "camera") \o "\n"
         \o "  â€¢ " \o Field(phone2, "model_name") \o ": " \o Field(phone2, "camera") \o "\n\n"
         \o "ð\\u0178\\u2019° Price:\n"
         \o "  â€¢ " \o Field(phone1, "model_name") \o ": " \o Field(phone1, "price") \o "\n"
         \o "  â€¢ " \o Field(phone2, "model_name") \o ": " \o Field(phone2, "price") \o "\n\n"
         \o "ð\\u0178\\u201c Recommendation:\n"
         \o advice

\* lines 292-365
_generate_comparison_review(data) ==
    IF Get(data, "comparison_data", EmptyDict) = EmptyDict \/ Len(data.phones) < 2
    THEN (IF Len(data.phones) = 1 THEN _generate_specs_review(data)
          ELSE "Please specify two phones to compare.")
    ELSE ComparisonText(data.comparison_data.phone1, data.comparison_data.phone2,
                        ComparisonAdvice(data.comparison_data.phone1, data.comparison_data.phone2,
                                         FocusOf(data.criteria), data.query))

RECURSIVE PickLines(_, _)
\* lines 390-395: the numbered entries of the picks from the i-th on
PickLines(top_picks, i) ==
    IF i > Len(top_picks) THEN ""
    ELSE IntText(i) \o ". **" \o Field(top_picks[i], "model_name") \o "**\n"
         \o "   â€¢ Price: " \o Field(top_picks[i], "price") \o "\n"
         \o "   â€¢ Battery: " \o Field(top_picks[i], "battery") \o "\n"
         \o "   â€¢ Camera: " \o Field(top_picks[i], "camera") \o "\n"
         \o "   â€¢ Display: " \o Field(top_picks[i], "display") \o "\n\n"
         \o PickLines(top_picks, i + 1)

\* lines 367-400: top_picks is rec_data.get('top_picks', phones[:3])
_generate_recommendation_review(data) ==
    LET top_picks == IF "recommendation_data" \in DOMAIN data
                     THEN data.recommendation_data.top_picks
                     ELSE Take(data.phones, 3)
    IN  IF top_picks = <<>> THEN "I couldn't find phones matching your criteria."
        ELSE (IF FocusOf(data.criteria) = "battery"
              THEN "Best Samsung phones for battery life:\n\n"
              ELSE IF FocusOf(data.criteria) = "camera"
              THEN "Best Samsung phones for photography:\n\n"
              ELSE IF Get(data.criteria, "price_max", 0) # 0
              THEN "Best Samsung phones under $" \o IntText(data.criteria["price_max"]) \o ":\n\n"
              ELSE "Based on your requirements, here are my recommendations:\n\n")
             \o PickLines(Take(top_picks, 3), 1)
             \o "Top recommendation: " \o Field(top_picks[1], "model_name")
             \o " offers the best value for your needs."

\* the general template with the specs template for no record
_generate_general_reviewSpecsForNone(data) ==
    IF Len(data.phones) <= 1 THEN _generate_specs_review(data)
    ELSE _generate_recommendation_review(data)

\* lines 402-411
_generate_general_review(data) ==
    IF Len(data.phones) = 1 THEN _generate_specs_review(data)
    ELSE IF Len(data.phones) >= 2 THEN _generate_recommendation_review(data)
    ELSE "Please ask about specific Samsung phone models or describe what you're looking for."

---------------------------------------------------------------------------
(* generate_review and _generate_with_llm                                   *)

\* The outcome of a generate_content call is "text" (response.text is returned),
\* "quota" (an exception whose text holds 429, quota or rate) or "error" (any other
\* exception).  outcome is the outcomes of the call of the primary model and of the
\* first and the second call of the fallback model.

\* lines 235-261: the calls made, in order
GeneratorCalls(outcome) ==
    <<[backend |-> "gemini-2.0-flash", outcome |-> outcome[1]]>>
    \o (IF outcome[1] # "text" THEN <<[backend |-> "gemini-pro", outcome |-> outcome[2]]>> ELSE <<>>)
    \o (IF outcome[1] = "quota" /\ outcome[2] # "text"
        THEN <<[backend |-> "gemini-pro", outcome |-> outcome[3]]>> ELSE <<>>)

\* response.text of a call that succeeds
Generated == "<response.text>"

\* lines 235-270, with both models set: the text of the call that succeeded, or else
\* the template of lines 264-270
_generate_with_llm(data, made) ==
    IF made[Len(made)].outcome = "text" THEN Generated
    ELSE IF data.query_type = "comparison" THEN _generate_comparison_review(data)
    ELSE IF data.query_type = "recommendation" THEN _generate_recommendation_review(data)
    ELSE _generate_specs_review(data)

\* generate_review without the early return for no record
generate_reviewUnchecked(data, configured, made) ==
    IF configured /\ made # <<>> THEN _generate_with_llm(data, made)
    ELSE IF data.query_type = "comparison" THEN _generate_comparison_review(data)
    ELSE IF data.query_type = "recommendation" THEN _generate_recommendation_review(data)
    ELSE IF data.query_type = "specs" THEN _generate_specs_review(data)
    ELSE _generate_general_review(data)

\* lines 164-186: made is the calls GeneratorCalls gives when the models are set
generate_review(data, configured, made) ==
    IF data.phones = <<>>
    THEN "I couldn't find any Samsung phones matching your query. Please try rephrasing your question or ask about specific models like Galaxy S24 Ultra, S23, A54, etc."
    ELSE IF configured THEN _generate_with_llm(data, made)
    ELSE IF data.query_type = "comparison" THEN _generate_comparison_review(data)
    ELSE IF data.query_type = "recommendation" THEN _generate_recommendation_review(data)
    ELSE IF data.query_type = "specs" THEN _generate_specs_review(data)
    ELSE _generate_general_review(data)

---------------------------------------------------------------------------
(* The inputs                                                               *)

\* the longest question of classification words, in words
MaxWords == 2
\* the most model mentions in a question
MaxMentions == 2

ClassifyWords ==
    {"compare", "vs", "best", "which", "spec", "what is", "battery", "long lasting",
     "camera", "photo", "display", "under $1000", "Under 800", "below 500", "phone"}

Mentions ==
    {"Galaxy S24", "galaxy s24 ultra", "S24+", "s24 plus", "S24 FE",
     "Samsung Galaxy S24 Ultra", "Galaxy A53 5G", "Z Fold6", "z flip 6 fe"}

RECURSIVE Phrases(_, _, _)
\* the texts of at most n members of words, joined by sep
Phrases(words, sep, n) ==
    IF n = 0 THEN {""}
    ELSE LET shorter == Phrases(words, sep, n - 1)
         IN  shorter \cup {IF p = "" THEN w ELSE p \o sep \o w : p \in shorter, w \in words}

ClassifyQueries == Phrases(ClassifyWords, " ", MaxWords)

\* a phrase of mentions as a question: bare or after "compare ", bare or with a question mark
Asked(phrases) == {pre \o p \o post : pre \in {"", "compare "}, p \in phrases \ {""}, post \in {"", "?"}}

ResolveQueries == Asked(Phrases(Mentions, " and ", MaxMentions))

\* a row as scrape_phone_details leaves it when the page gives no specification
Scraped(model_name) == Phone(model_name, "N/A", "N/A", "N/A", "N/A", "N/A", "N/A", "N/A")

\* rows under the names the brand page lists, which carry no "Samsung "
ScrapedCatalog ==
    <<Scraped("Galaxy S24 Ultra"), Scraped("Galaxy S24+"), Scraped("Galaxy S24"),
      Scraped("Galaxy S24 FE"), Scraped("Galaxy A53 5G"), Scraped("Galaxy Z Fold6"),
      Scraped("Galaxy Z Flip6"), Scraped("Galaxy Z Flip6 FE"),
      Scraped("Galaxy Z Fold Special")>>

\* the table after run_scraper has scraped fewer than 20 rows and added the sample rows
MixedCatalog == ScrapedCatalog \o SampleCatalog

QuerySpecs == "compare Galaxy S23 Ultra and S22 Ultra for photography"
QueryBattery == "which Samsung phone has the best battery under $1000"

\* a row whose price is a text as the product page gives it
PricedRow(model_name, price) ==
    Phone(model_name, "N/A", "5000 mAh", "50 MP", "8 GB", "N/A", price, "N/A")

\* a table whose price texts take the forms the price patterns tell apart
PricedCatalog ==
    <<PricedRow("Galaxy A54 5G", "$ 349.99 / € 399.00"), PricedRow("Galaxy S23", "$ 1,049.99"),
      PricedRow("Galaxy A73 5G", "€ 459.00"), PricedRow("Galaxy A52", "About 350 EUR"),
      PricedRow("Galaxy S21 FE 5G", None), PricedRow("Galaxy A71", "$0")>>

\* the same table with a price text that holds no digit after the sign
UnpricedCatalog == PricedCatalog \o <<PricedRow("Galaxy A51", "$,")>>

\* questions that name no model
PriceQueries == {"phone under 500", "best phone below $1100", "which phone", "phone"}

\* the (question, table) pairs a request starts from; among them questions that hold
\* white space or letters beyond ASCII at a name, and last questions that name
\* a Z Fold or Z Flip over a table that also holds one without a generation number, and
\* questions that name base models over a table that holds their variants alone
RetrieveInputs ==
    (ClassifyQueries \X {<<>>})
    \cup (ResolveQueries \X {ScrapedCatalog})
    \cup ((Asked(Mentions) \cup {QuerySpecs, QueryBattery, "best Galaxy S24 Ultra under $500",
                                   "which Samsung phone is best"})
          \X {SampleCatalog, MixedCatalog})
    \cup (PriceQueries \X {PricedCatalog, UnpricedCatalog})
    \cup ({"z fold", "zflip", "Z Fold 6?", "z flip 6", "z flip 5", "z fold 6 special",
           "zfold special", "z flip6fe", "z flip 7 fe", "compare z flip 5 and z flip 6",
           "z flip 6 fe or z fold"}
          \X {ScrapedCatalog \o <<Scraped("Galaxy Z Flip")>>})
    \cup ({"s24" \o Ch(OtherSpace, 6) \o "ultra", "galaxy s24" \o Ch(OtherSpace, 0) \o "ultra",
           Ch(LowerAlpha, 35) \o "s24", "s24" \o Ch(OtherAlnum, 1),
           "Galaxy S24" \o Ch(OtherSpace, 5) \o "and A53 5G"}
          \X {ScrapedCatalog})
    \cup ({"s24", "galaxy " \o Ch(LowerAlpha, 35) \o "1", "Galaxy " \o Ch(UpperAlpha, 35) \o "1"}
          \X {<<Scraped("Galaxy S24" \o Ch(OtherSpace, 0)),
                Scraped("Galaxy " \o Ch(UpperAlpha, 35) \o "1")>>})
    \cup ({"S24 and Z Flip6", "compare z flip 6 with the s24"}
          \X {SelectSeq(ScrapedCatalog,
                        LAMBDA row : row.model_name \notin {"Galaxy S24", "Galaxy Z Flip6"})})

\* a table as the scraper leaves it: rows with every column, rows that tie in battery
\* or camera, a row whose page gave no specification, and a row with NULL columns
AnswerCatalog ==
    <<[model_name |-> "Galaxy S24 Ultra", release_date |-> "2024, January 17",
       display |-> "6.8 inches, Dynamic AMOLED 2X, 120Hz", battery |-> "5000 mAh, 45W wired",
       camera |-> "200 MP main", ram |-> "12 GB", storage |-> "256GB/512GB/1TB",
       price |-> "$1299", chipset |-> "Snapdragon 8 Gen 3", os |-> "Android 14, One UI 6.1"],
      [model_name |-> "Galaxy S24", release_date |-> "2024, January 17",
       display |-> "6.2 inches, Dynamic AMOLED 2X, 120Hz", battery |-> "4000 mAh",
       camera |-> "50 MP main", ram |-> "8 GB", storage |-> "128GB/256GB",
       price |-> "$799", chipset |-> "Exynos 2400", os |-> "Android 14, One UI 6.1"],
      [model_name |-> "Galaxy A55", release_date |-> "2024, March 11",
       display |-> "6.6 inches, Super AMOLED, 120Hz", battery |-> "5000 mAh",
       camera |-> "50 MP main", ram |-> "8 GB", storage |-> "128GB/256GB",
       price |-> "$449", chipset |-> "Exynos 1480", os |-> "Android 14, One UI 6.1"],
      [model_name |-> "Galaxy A15", release_date |-> "N/A", display |-> "N/A",
       battery |-> "N/A", camera |-> "N/A", ram |-> "N/A", storage |-> "N/A",
       price |-> "N/A", chipset |-> "N/A", os |-> "N/A"],
      [model_name |-> "Galaxy A25", release_date |-> None, display |-> None,
       battery |-> None, camera |-> None, ram |-> None, storage |-> None,
       price |-> None, chipset |-> None, os |-> None]>>

\* the questions asked: an intent word or none, at most MaxMentions models, and a
\* focus word, two of them, a price ceiling or none; and questions of fewer than three
\* characters, or of three with white space around them
AnswerQueries ==
    {intent \o named \o wish :
        intent \in {"", "compare ", "best ", "what is "},
        named \in Phrases({"S24 Ultra", "S24", "A55", "A15", "A25"}, " and ", MaxMentions)
                  \cup {"phone"},
        wish \in {"", " camera", " photo", " battery", " display", " photo display",
                  " under $1000"}}
    \cup {"  ", "ab", " ab ", "\tab\n", "a b", " S24 ", "S24\n",
           Ch(OtherSpace, 0) \o "ab" \o Ch(OtherSpace, 0), Ch(OtherSpace, 6) \o "ab",
           "ab" \o Ch(OtherSpace, 5), Ch(OtherSpace, 0) \o "S24"}

\* the texts a column of a scored record holds
BatteryTexts == {"5000 mAh, 45W wired charging", "4000mAh", "3700 MAH", "N/A", None}
CameraTexts == {"200 MP main | 50 MP periscope", "N/A", None}
RamTexts == {"8/12 GB", "", None}
DisplayTexts == {"Dynamic AMOLED 2X, 120Hz", "PLS LCD, 60Hz", None}
PriceTexts == {"$799 / €899", "$1,299", "$ 349.99", "N/A", None}

\* the records scored: every combination of the column texts, and a dict without the columns
ScoreRecords ==
    {Phone("Galaxy X", d, b, c, r, "N/A", p, "N/A") :
        d \in DisplayTexts, b \in BatteryTexts, c \in CameraTexts,
        r \in RamTexts, p \in PriceTexts}
    \cup {[model_name |-> "Galaxy X"]}

\* the lists ranked: one record, or a record and the same record with another battery text
ScoreLists ==
    {<<r>> : r \in ScoreRecords}
    \cup {<<r, [r EXCEPT !.battery = b]>> :
             r \in {x \in ScoreRecords : "battery" \in DOMAIN x}, b \in BatteryTexts}

\* the longest list ranked, in records
MaxRanked == 4

\* records that rank differently under the focus areas and budgets; M2 and M3 differ in
\* the name alone
RankRecords ==
    {Phone("Galaxy M1", "PLS LCD, 60Hz", "6000 mAh", "50 MP main", "8 GB", "128GB", "$999", "N/A"),
     Phone("Galaxy M2", "PLS LCD, 60Hz", "5000 mAh", "100 MP main", "8 GB", "128GB", "$799", "N/A"),
     Phone("Galaxy M3", "PLS LCD, 60Hz", "5000 mAh", "100 MP main", "8 GB", "128GB", "$799", "N/A"),
     Phone("Galaxy M4", "Dynamic AMOLED 2X, 120Hz", "4000 mAh", "200 MP main", "12 GB", "256GB",
           "$1,299", "N/A")}

\* records whose scores are equal as fractions and differ in the last bit as floats:
\* T1 14.2 and T2 14.200000000000001 under the battery focus, T4 8.899999999999999 and
\* T3 8.9 under a ceiling they are within
CloseRecords ==
    <<Phone("Galaxy T1", "PLS LCD, 60Hz", "3900 mAh", "50 MP main", "6 GB", "128GB", "$799", "N/A"),
      Phone("Galaxy T2", "PLS LCD, 60Hz", "3700 mAh", "5 MP main", "12 GB", "128GB", "$799", "N/A"),
      Phone("Galaxy T4", "PLS LCD, 60Hz", "4300 mAh", "5 MP main", "6 GB", "128GB", "$799", "N/A"),
      Phone("Galaxy T3", "PLS LCD, 60Hz", "3900 mAh", "50 MP main", "4 GB", "128GB", "$799", "N/A")>>

\* the lists of two of them
CloseLists == {<<CloseRecords[i], CloseRecords[j]>> : i, j \in 1..4}

\* records whose scores reach 65536 and more: Big 65536.0 overall and 196606.0 under the
\* battery focus, Wide 70000.75 overall, against M1 of 9.0
WideRecords ==
    <<Phone("Galaxy M1", "PLS LCD, 60Hz", "6000 mAh", "50 MP main", "8 GB", "128GB", "$999", "N/A"),
      Phone("Galaxy Big", "PLS LCD, 60Hz", "65535000 mAh", "50 MP", "N/A", "128GB", "$799", "N/A"),
      Phone("Galaxy Wide", "PLS LCD, 60Hz", "40000500 mAh", "N/A", "120001 GB", "128GB", "$1,299",
            "N/A")>>

\* the lists of two of them
WideLists == {<<WideRecords[i], WideRecords[j]>> : i, j \in 1..3}

RECURSIVE Lists(_, _)
\* the lists of at most n members of records
Lists(records, n) ==
    IF n = 0 THEN {<<>>}
    ELSE Lists(records, n - 1) \cup {Append(l, r) : l \in Lists(records, n - 1), r \in records}

\* the records compared (the lists of fewer or more than two are among the lists
\* ranked, which have every length up to MaxRanked): two texts for every attribute compared, among them texts
\* that differ in case or spacing alone, 'N/A' and a NULL column
CompareRecords ==
    {Phone("Galaxy X", d, b, c, r, s, p, h) :
        d \in {"6.8 inches, 120Hz", "6.1 inches, 120Hz"}, b \in {"5000 mAh", "N/A"},
        c \in {"200 MP main", None}, r \in {"8 GB", "8GB"}, s \in {"256GB", "N/A"},
        p \in {"$799", "$ 799"}, h \in {"Exynos 2400", "exynos 2400"}}

\* the criteria dicts retrieve_specs can build
ScoreCriteria ==
    {f @@ m : f \in {EmptyDict} \cup {[focus |-> x] : x \in {"battery", "camera", "display"}},
              m \in {EmptyDict} \cup {[price_max |-> x] : x \in {799, 1000}}}

---------------------------------------------------------------------------
(* The request: retrieve_specs                                              *)

\* extract_phone_names over the names of the table
extract_phone_names(q, rows) == SelectPhones(MatchedPhones(PhoneNames(rows), QueryNormalized(q)))

Init ==
    /\ pc = "ask"
    /\ \E in \in RetrieveInputs : question = in[1] /\ query = in[1] /\ catalog = in[2]
    /\ query_type = "unknown"
    /\ criteria = EmptyDict
    /\ matched_phones = <<>>
    /\ mentioned_phones = <<>>
    /\ phones = <<>>
    /\ looked = 0
    /\ scraping = FALSE
    /\ scored = <<>>
    /\ recommendation_data = [raised |-> FALSE, top_picks |-> <<>>]
    /\ comparison_data = EmptyDict
    /\ self_model = FALSE
    /\ extracted_data = EmptyDict
    /\ calls = <<>>
    /\ response = None

\* the whole call over one table: classification, criteria, resolution and fetch; it ends in
\* "raised" when the price filter raises, and then returns nothing
retrieve_specs ==
    /\ pc = "ask"
    /\ query_type' = QueryType(Lower(query))
    /\ criteria' = Criteria(Lower(query))
    /\ matched_phones' = MatchedPhones(PhoneNames(catalog), QueryNormalized(query))
    /\ mentioned_phones' = extract_phone_names(query, catalog)
    /\ IF FetchRaises(mentioned_phones', criteria', catalog)
       THEN pc' = "raised" /\ phones' = <<>>
       ELSE /\ pc' = "retrieved"
            /\ phones' = FetchPhones(mentioned_phones', query_type', criteria', catalog)
    /\ looked' = Len(mentioned_phones')
    /\ UNCHANGED <<question, query, catalog, scraping, scored, recommendation_data, comparison_data,
                   self_model, extracted_data, calls, response>>

Next == retrieve_specs

Spec == Init /\ [][Next]_vars

---------------------------------------------------------------------------
(* The ranker called on its own: _prepare_recommendations                   *)

InitScore ==
    /\ pc = "rank"
    /\ \/ phones \in ScoreLists \cup Lists(RankRecords, MaxRanked) \cup CloseLists \cup WideLists
          /\ criteria \in ScoreCriteria
       \/ phones \in CompareRecords \X CompareRecords /\ criteria = EmptyDict
    /\ question = ""
    /\ query = ""
    /\ catalog = <<>>
    /\ looked = 0
    /\ scraping = FALSE
    /\ query_type = "recommendation"
    /\ matched_phones = <<>>
    /\ mentioned_phones = <<>>
    /\ scored = <<>>
    /\ recommendation_data = [raised |-> FALSE, top_picks |-> <<>>]
    /\ comparison_data = EmptyDict
    /\ self_model = FALSE
    /\ extracted_data = EmptyDict
    /\ calls = <<>>
    /\ response = None

PrepareRecommendations ==
    /\ pc = "rank"
    /\ pc' = "ranked"
    /\ scored' = ScoreAll(phones, criteria)
    /\ recommendation_data' = _prepare_recommendations(phones, criteria)
    /\ UNCHANGED <<question, query, catalog, scraping, query_type, criteria, matched_phones,
                   mentioned_phones, phones, looked, comparison_data, self_model, extracted_data,
                   calls, response>>

\* _prepare_comparison called on its own
PrepareComparison ==
    /\ pc = "rank"
    /\ pc' = "compared"
    /\ comparison_data' = _prepare_comparison(phones)
    /\ UNCHANGED <<question, query, catalog, scraping, query_type, criteria, matched_phones,
                   mentioned_phones, phones, looked, scored, recommendation_data, self_model,
                   extracted_data, calls, response>>

NextScore == PrepareRecommendations \/ PrepareComparison

SpecScore == InitScore /\ [][NextScore]_vars

---------------------------------------------------------------------------
(* The request from question to answer: process_query                       *)

\* get_agent_system() builds the agents once, with or without an API key; a request
\* has arrived and process_query has not been called
InitAnswer ==
    /\ pc = "request"
    /\ \E in \in (AnswerQueries \X {AnswerCatalog, <<>>})
                   \cup ({QueryBattery} \X {SampleCatalog})
                   \cup ({"best battery", "best phone under $1000"} \X {CloseRecords, WideRecords}) :
           question = in[1] /\ catalog = in[2]
    /\ query = None
    /\ self_model \in BOOLEAN
    /\ query_type = "unknown"
    /\ criteria = EmptyDict
    /\ matched_phones = <<>>
    /\ mentioned_phones = <<>>
    /\ phones = <<>>
    /\ looked = 0
    /\ scraping = FALSE
    /\ scored = <<>>
    /\ recommendation_data = [raised |-> FALSE, top_picks |-> <<>>]
    /\ comparison_data = EmptyDict
    /\ extracted_data = EmptyDict
    /\ calls = <<>>
    /\ response = None

\* the validation with the length taken of the question as sent
ask_questionUnstripped ==
    /\ pc = "request"
    /\ IF question = "" \/ Len(question) < 3
       THEN pc' = "rejected" /\ query' = query
       ELSE pc' = "ask" /\ query' = question
    /\ UNCHANGED <<question, catalog, scraping, query_type, criteria, matched_phones, mentioned_phones,
                   phones, looked, scored, recommendation_data, comparison_data, self_model,
                   extracted_data, calls, response>>

\* main.py lines 96-104: HTTPException 400 ("rejected") for a question that is empty
\* or shorter than 3 characters when stripped, else process_query(request.question)
ask_question ==
    /\ pc = "request"
    /\ IF question = "" \/ Len(Strip(question)) < 3
       THEN pc' = "rejected" /\ query' = query
       ELSE pc' = "ask" /\ query' = question
    /\ UNCHANGED <<question, catalog, scraping, query_type, criteria, matched_phones, mentioned_phones,
                   phones, looked, scored, recommendation_data, comparison_data, self_model,
                   extracted_data, calls, response>>

\* lines 31-48 of extract_data, after retrieve_specs has returned; it ends in
\* "raised" when _score_phone raises
ExtractData ==
    /\ pc = "retrieved"
    /\ IF query_type = "recommendation" /\ _prepare_recommendations(phones, criteria).raised
       THEN pc' = "raised" /\ extracted_data' = EmptyDict
       ELSE /\ pc' = "extracted"
            /\ extracted_data' = extract_data(query, query_type, criteria, phones)
    /\ UNCHANGED <<question, query, catalog, scraping, query_type, criteria, matched_phones, mentioned_phones,
                   phones, looked, scored, recommendation_data, comparison_data, self_model,
                   calls, response>>

\* generate_review for the outcomes of the generate_content calls it makes; it ends in
\* "raised" when a template raises
GenerateReview ==
    /\ pc = "extracted"
    /\ \E outcome \in {"text", "quota", "error"} \X {"text", "quota", "error"}
                      \X {"text", "quota", "error"} :
           /\ calls' = (IF self_model /\ phones # <<>> THEN GeneratorCalls(outcome) ELSE <<>>)
           /\ response' = generate_review(extracted_data, self_model, calls')
    /\ pc' = (IF response' = Raised THEN "raised" ELSE "answered")
    /\ UNCHANGED <<question, query, catalog, scraping, query_type, criteria, matched_phones, mentioned_phones,
                   phones, looked, scored, recommendation_data, comparison_data, self_model,
                   extracted_data>>

NextAnswer == ask_question \/ retrieve_specs \/ ExtractData \/ GenerateReview

SpecAnswer == InitAnswer /\ [][NextAnswer]_vars

---------------------------------------------------------------------------
(* Requests one after another, served by the one MultiAgentSystem           *)

\* the questions of a session: rejected, with a resolved name, with two resolved names
\* of which one holds the other, with resolved names and criteria, and with a price
\* ceiling alone
SessionQuestions ==
    {"ab", "S24", "S24 and S24 Ultra", "best S24 and A55 under $1000", "phone under $500"}

InitSession ==
    /\ pc = "request"
    /\ question \in SessionQuestions
    /\ query = None
    /\ catalog = AnswerCatalog
    /\ self_model \in BOOLEAN
    /\ query_type = "unknown"
    /\ criteria = EmptyDict
    /\ matched_phones = <<>>
    /\ mentioned_phones = <<>>
    /\ phones = <<>>
    /\ looked = 0
    /\ scraping = FALSE
    /\ scored = <<>>
    /\ recommendation_data = [raised |-> FALSE, top_picks |-> <<>>]
    /\ comparison_data = EmptyDict
    /\ extracted_data = EmptyDict
    /\ calls = <<>>
    /\ response = None

\* the next POST /ask arrives after the request before it has ended (HTTP 400, 200 or
\* 500): get_agent_system() hands out the same agents, and what the calls of the
\* request before left behind is not reset here
Request ==
    /\ pc \in {"rejected", "answered", "raised"}
    /\ pc' = "request"
    /\ question' \in SessionQuestions
    /\ UNCHANGED <<query, catalog, scraping, query_type, criteria, matched_phones,
                   mentioned_phones, phones, looked, scored, recommendation_data,
                   comparison_data, self_model, extracted_data, calls, response>>

\* the first statements with result['criteria'] of the call before, not {}, to start from
retrieve_specsNamesCriteriaKept ==
    /\ pc = "ask"
    /\ query_type' = QueryType(Lower(query))
    /\ criteria' = FocusCriteria(Lower(query), PriceCriteria(Lower(query), criteria))
    /\ matched_phones' = MatchedPhones(PhoneNames(catalog), QueryNormalized(query))
    /\ mentioned_phones' = extract_phone_names(query, catalog)
    /\ phones' = <<>> /\ looked' = 0
    /\ pc' = "fetch"
    /\ UNCHANGED <<question, query, catalog, scraping, scored, recommendation_data,
                   comparison_data, self_model, extracted_data, calls, response>>

\* retrieve_specs statement by statement, each SELECT reading the table as it is
\* committed at that moment.  Lines 232-272: the new result dict, the classification,
\* the criteria and extract_phone_names with its SELECT of the names
retrieve_specsNames ==
    /\ pc = "ask"
    /\ query_type' = QueryType(Lower(query))
    /\ criteria' = Criteria(Lower(query))
    /\ matched_phones' = MatchedPhones(PhoneNames(catalog), QueryNormalized(query))
    /\ mentioned_phones' = extract_phone_names(query, catalog)
    /\ phones' = <<>> /\ looked' = 0
    /\ pc' = "fetch"
    /\ UNCHANGED <<question, query, catalog, scraping, scored, recommendation_data,
                   comparison_data, self_model, extracted_data, calls, response>>

\* lines 277-278 for the row get_phone_by_name returned (0 for None), and the loop of
\* line 275 moving to the next name, or retrieve_specs returning after the last
LookedUp(row) ==
    /\ phones' = (IF row = 0 THEN phones ELSE Append(phones, catalog[row]))
    /\ looked' = looked + 1
    /\ pc' = (IF looked + 1 = Len(mentioned_phones) THEN "retrieved" ELSE "fetch")

\* lines 126-131 for the next name: the SELECT by the exact name
get_phone_by_nameExact ==
    /\ pc = "fetch" /\ looked < Len(mentioned_phones)
    /\ IF ExactRow(mentioned_phones[looked + 1], catalog) # 0
       THEN LookedUp(ExactRow(mentioned_phones[looked + 1], catalog))
       ELSE pc' = "contains" /\ UNCHANGED <<phones, looked>>
    /\ UNCHANGED <<question, query, catalog, scraping, query_type, criteria, matched_phones,
                   mentioned_phones, scored, recommendation_data, comparison_data,
                   self_model, extracted_data, calls, response>>

\* lines 134-143: the SELECT by the name as a substring
get_phone_by_nameContains ==
    /\ pc = "contains"
    /\ IF ContainsRow(Lower(mentioned_phones[looked + 1]), catalog) # 0
       THEN LookedUp(ContainsRow(Lower(mentioned_phones[looked + 1]), catalog))
       ELSE IF SearchTerms(mentioned_phones[looked + 1]) # ""
       THEN pc' = "terms" /\ UNCHANGED <<phones, looked>>
       ELSE LookedUp(0)
    /\ UNCHANGED <<question, query, catalog, scraping, query_type, criteria, matched_phones,
                   mentioned_phones, scored, recommendation_data, comparison_data,
                   self_model, extracted_data, calls, response>>

\* lines 144-148: the SELECT by the name without "samsung" and "galaxy"
get_phone_by_nameTerms ==
    /\ pc = "terms"
    /\ LookedUp(ContainsRow(SearchTerms(mentioned_phones[looked + 1]), catalog))
    /\ UNCHANGED <<question, query, catalog, scraping, query_type, criteria, matched_phones,
                   mentioned_phones, scored, recommendation_data, comparison_data,
                   self_model, extracted_data, calls, response>>

\* lines 279-288 when no name was resolved: the one SELECT of the price filter or of
\* get_all_phones, or none
retrieve_specsRows ==
    /\ pc = "fetch" /\ mentioned_phones = <<>>
    /\ IF FetchRaises(mentioned_phones, criteria, catalog)
       THEN pc' = "raised" /\ phones' = <<>>
       ELSE /\ pc' = "retrieved"
            /\ phones' = FetchPhones(mentioned_phones, query_type, criteria, catalog)
    /\ UNCHANGED <<question, query, catalog, scraping, query_type, criteria, matched_phones,
                   mentioned_phones, looked, scored, recommendation_data, comparison_data,
                   self_model, extracted_data, calls, response>>

\* run_scraper, run beside the service (python scraper.py [--force]), commit by commit.
\* The pages scraped: at most this one row is scraped in a run
ScrapedRows == {Scraped("Galaxy S24")}

\* the row is added unless its name exists (an exact, case-sensitive comparison)
Existing(rows, model_name) == \E i \in 1..Len(rows) : rows[i].model_name = model_name

\* lines 676-680: with force_refresh and rows in the table, every row is deleted
run_scraperDelete ==
    /\ ~scraping /\ catalog # <<>>
    /\ catalog' = <<>> /\ scraping' = TRUE
    /\ UNCHANGED <<pc, question, query, query_type, criteria, matched_phones,
                   mentioned_phones, phones, looked, scored, recommendation_data,
                   comparison_data, self_model, extracted_data, calls, response>>

\* lines 690-707: a scraped row is added and committed.  A run without force_refresh
\* gets here when it counted fewer than 20 rows, a run with it after the delete or
\* over an empty table.
run_scraperAdd ==
    /\ scraping \/ Len(catalog) < 20
    /\ \E row \in ScrapedRows :
           /\ ~Existing(catalog, row.model_name)
           /\ catalog' = Append(catalog, row)
    /\ scraping' = TRUE
    /\ UNCHANGED <<pc, question, query, query_type, criteria, matched_phones,
                   mentioned_phones, phones, looked, scored, recommendation_data,
                   comparison_data, self_model, extracted_data, calls, response>>

\* lines 711-723 (and 735-741 after an exception): fewer than 20 rows were added, so
\* the sample rows whose names do not exist are added in one commit, and the run ends
run_scraperSample ==
    /\ scraping \/ Len(catalog) < 20
    /\ catalog' = catalog \o SelectSeq(SampleCatalog,
                                       LAMBDA row : ~Existing(catalog, row.model_name))
    /\ scraping' = FALSE
    /\ UNCHANGED <<pc, question, query, query_type, criteria, matched_phones,
                   mentioned_phones, phones, looked, scored, recommendation_data,
                   comparison_data, self_model, extracted_data, calls, response>>

NextSession ==
    \/ Request \/ ask_question
    \/ retrieve_specsNames \/ get_phone_by_nameExact \/ get_phone_by_nameContains
    \/ get_phone_by_nameTerms \/ retrieve_specsRows
    \/ ExtractData \/ GenerateReview
    \/ run_scraperDelete \/ run_scraperAdd \/ run_scraperSample

SpecSession == InitSession /\ [][NextSession]_vars

---------------------------------------------------------------------------
(* The claims                                                               *)

Retrieved == pc = "retrieved"

\* the question as the resolver reads it
Asking == QueryNormalized(query)

Mentioned(name) == \E j \in 1..Len(mentioned_phones) : mentioned_phones[j] = name

\* the scores recorded for a name
ScoresOf(name) ==
    {matched_phones[j].score : j \in {i \in 1..Len(matched_phones) : matched_phones[i].name = name}}

HasFocus == "focus" \in DOMAIN criteria
HasPriceMax == "price_max" \in DOMAIN criteria

\* name stands in text q as a phrase of its own: no letter or digit touches it, and
\* no suffix word or "+" follows it
NamedVerbatim(q, name) ==
    \E k \in 0..Len(q) :
        LET e == k + Len(name)
        IN  /\ LitAt(q, k, name)
            /\ ~IsWord(Ch(q, k - 1))
            /\ ~IsWord(Ch(q, e))
            /\ \A i \in 1..Len(SuffixWords) : ~LitAt(q, e + SpaceRun(q, e), SuffixWords[i])

\* C1: every catalog name that the question holds verbatim, in any letter case, is
\* returned by extract_phone_names and was matched at confidence 80 or more.
C1_VerbatimNameResolved ==
    Retrieved =>
        \A i \in 1..Len(catalog) :
            NamedVerbatim(Lower(query), Lower(catalog[i].model_name)) =>
                /\ Mentioned(catalog[i].model_name)
                /\ \E c \in ScoresOf(catalog[i].model_name) : c >= 80

\* the offsets where text q names the series number num
NumberAt(q, num) ==
    {k \in 0..Len(q) : WordB(q, k) /\ LitAt(q, k, num) /\ ~IsDigit(Ch(q, k + Len(num)))}

\* at offset e a recognized suffix follows as a token: ultra, plus or fe ending at a
\* word end, or the sign +
SuffixToken(q, e) ==
    LET a == e + SpaceRun(q, e)
    IN  \/ LitAt(q, a, "+")
        \/ \E w \in {"ultra", "plus", "fe"} : LitAt(q, a, w) /\ ~IsWord(Ch(q, a + Len(w)))

\* at offset e the text of a recognized suffix follows
SuffixText(q, e) == \E i \in 1..Len(SuffixWords) : LitAt(q, e + SpaceRun(q, e), SuffixWords[i])

\* the series number and the suffix of catalog row i, when its name is a series name
SeriesOf(i) == ModelMatch(CoreName(Lower(catalog[i].model_name)))

\* C2: when the question names a series number only with a suffix (ultra, plus, + or
\* fe), no match at all is recorded for the catalog model of that number without a
\* suffix, and that model is not in the result.
C2_SuffixDoesNotLeakToBase ==
    Retrieved =>
        \A i \in 1..Len(catalog) :
            LET at == NumberAt(Lower(query), SeriesOf(i).num)
            IN  (/\ SeriesOf(i).ok
                 /\ SeriesOf(i).suffix = ""
                 /\ at # {}
                 /\ \A k \in at : SuffixToken(Lower(query), k + Len(SeriesOf(i).num)))
                => /\ ScoresOf(catalog[i].model_name) = {}
                   /\ ~Mentioned(catalog[i].model_name)

\* the question names the series number of row i, and nowhere with a suffix after it
NamesNumberBare(i) ==
    LET at == NumberAt(Asking, SeriesOf(i).num)
    IN  at # {} /\ \A k \in at : ~SuffixText(Asking, k + Len(SeriesOf(i).num))

\* C3: when the question names a series number with no suffix, a catalog model of
\* that number with a suffix is recorded at confidence 30 only, and is not in the
\* result when any model was matched at confidence 80 or more.
C3_SuffixedCandidateIsWeak ==
    Retrieved =>
        \A i \in 1..Len(catalog) :
            (SeriesOf(i).ok /\ SeriesOf(i).suffix # "" /\ NamesNumberBare(i))
            => /\ ScoresOf(catalog[i].model_name) \subseteq {30}
               /\ (\E j \in 1..Len(matched_phones) : matched_phones[j].score >= 80)
                      => ~Mentioned(catalog[i].model_name)

\* the case of C3: a suffixed model recorded at 30 and left out, a stronger match kept
C3_Witness ==
    /\ Retrieved
    /\ \E i \in 1..Len(catalog) :
          /\ SeriesOf(i).ok /\ SeriesOf(i).suffix # "" /\ NamesNumberBare(i)
          /\ ScoresOf(catalog[i].model_name) = {30}
          /\ ~Mentioned(catalog[i].model_name)
    /\ \E j \in 1..Len(matched_phones) : matched_phones[j].score >= 80
    /\ mentioned_phones # <<>>

\* C4: for the question "compare Galaxy S23 Ultra and S22 Ultra for photography" over
\* the sample catalog the intent is comparison, the focus is camera and the resolver
\* returns exactly Samsung Galaxy S23 Ultra, Samsung Galaxy S22 Ultra, in that order.
C4_CompareRoundTrip ==
    (Retrieved /\ query = QuerySpecs /\ catalog = SampleCatalog) =>
        /\ query_type = "comparison"
        /\ HasFocus /\ criteria["focus"] = "camera"
        /\ mentioned_phones = <<"Samsung Galaxy S23 Ultra", "Samsung Galaxy S22 Ultra">>

\* a word of the set is present in the lower-cased question
Present(words) == \E w \in words : Contains(Lower(query), w)

\* C5: the intent is comparison if a comparison keyword is present, else
\* recommendation if a recommendation keyword is, else specs if a specs keyword is,
\* else general.
C5_IntentPrecedence ==
    LET comparison == Present({"compare", "versus", "vs", "difference", "better"})
        recommendation == Present({"best", "recommend", "which", "should i", "top"})
        specs == Present({"spec", "feature", "detail", "what is", "what are", "tell me about"})
    IN  Retrieved =>
            /\ comparison => query_type = "comparison"
            /\ (~comparison /\ recommendation) => query_type = "recommendation"
            /\ (~comparison /\ ~recommendation /\ specs) => query_type = "specs"
            /\ (~comparison /\ ~recommendation /\ ~specs) => query_type = "general"

\* the case of C5: keywords of all three categories, and the earliest category wins
C5_Witness ==
    /\ Retrieved
    /\ Present({"compare", "vs"})
    /\ Present({"best", "which"}) \/ Present({"spec", "what is"})
    /\ query_type = "comparison"

\* C6: the focus is display if a display or screen term is present, else camera if a
\* camera or photo term is, else battery if a battery term is, else the criteria hold
\* no focus; the intent plays no part.
C6_FocusLastGroupWins ==
    LET display == Present({"display", "screen"})
        camera == Present({"camera", "photo", "photography"})
        battery == Present({"battery", "long lasting"})
    IN  Retrieved =>
            /\ display => (HasFocus /\ criteria["focus"] = "display")
            /\ (~display /\ camera) => (HasFocus /\ criteria["focus"] = "camera")
            /\ (~display /\ ~camera /\ battery) => (HasFocus /\ criteria["focus"] = "battery")
            /\ (~display /\ ~camera /\ ~battery) => ~HasFocus

\* the case of C6: terms of two groups in a question, and the later group checked wins
C6_Witness ==
    /\ Retrieved
    /\ Present({"battery", "long lasting"})
    /\ Present({"camera", "photo"})
    /\ HasFocus /\ criteria["focus"] = "camera"

UnderAt == PricePhraseStarts(Lower(query), "under")
BelowAt == PricePhraseStarts(Lower(query), "below")
UnderValue == PricePhraseValue(Lower(query), "under")
BelowValue == PricePhraseValue(Lower(query), "below")

\* C7 as claimed: with an "under N" and a "below M" phrase, priceMax is the number of
\* the phrase that stands earlier in the text; with one of them, its number; with
\* neither, priceMax is unset.
C7_EarlierPhraseWins ==
    Retrieved =>
        /\ (UnderAt # {} /\ BelowAt # {}) =>
              /\ HasPriceMax
              /\ criteria["price_max"] =
                    IF Leftmost(UnderAt) < Leftmost(BelowAt) THEN UnderValue ELSE BelowValue
        /\ (UnderAt # {} /\ BelowAt = {}) => (HasPriceMax /\ criteria["price_max"] = UnderValue)
        /\ (UnderAt = {} /\ BelowAt # {}) => (HasPriceMax /\ criteria["price_max"] = BelowValue)
        /\ (UnderAt = {} /\ BelowAt = {}) => ~HasPriceMax

\* C7 as amended: priceMax is the number of the first "below M" phrase whenever the
\* text holds one, wherever it stands; else the number of the first "under N" phrase;
\* else priceMax is unset.
C7_BelowPhraseWins ==
    Retrieved =>
        /\ BelowAt # {} => (HasPriceMax /\ criteria["price_max"] = BelowValue)
        /\ (UnderAt # {} /\ BelowAt = {}) => (HasPriceMax /\ criteria["price_max"] = UnderValue)
        /\ (UnderAt = {} /\ BelowAt = {}) => ~HasPriceMax

\* the case of C7: "under N" stands before "below M", and priceMax is M
C7_Witness ==
    /\ Retrieved
    /\ UnderAt # {} /\ BelowAt # {}
    /\ Leftmost(UnderAt) < Leftmost(BelowAt)
    /\ UnderValue # BelowValue
    /\ HasPriceMax /\ criteria["price_max"] = BelowValue

\* C8: "which Samsung phone has the best battery under $1000" yields the intent
\* recommendation, the focus battery and priceMax 1000.
C8_BatteryQuestion ==
    (Retrieved /\ query = QueryBattery) =>
        /\ query_type = "recommendation"
        /\ HasFocus /\ criteria["focus"] = "battery"
        /\ HasPriceMax /\ criteria["price_max"] = 1000

\* the case of C8: the question has been classified
C8_Witness == Retrieved /\ query = QueryBattery /\ query_type = "recommendation"

Ranked == pc = "ranked"

\* the number before unit in a column text, 0 when the column is NULL or holds none
Amount(phone, key, unit) ==
    IF Get(phone, key, "") = None THEN 0 ELSE UnitAmount(Get(phone, key, ""), unit)

\* the display text mentions the word
Shows(phone, word) ==
    Get(phone, "display", "") # None /\ Contains(Lower(Get(phone, "display", "")), word)

\* the price text holds a dollar price
Priced(phone) == Get(phone, "price", "") # None /\ DollarStarts(Get(phone, "price", "")) # {}

\* the score C9 states, in thousandths: each of its terms is a whole number of them
AdditiveScore(phone, crit) ==
    Amount(phone, "battery", "mah") + 20 * Amount(phone, "camera", "mp")
    + 250 * Amount(phone, "ram", "gb")
    + (IF FocusOf(crit) = "battery" THEN 2 * Amount(phone, "battery", "mah") ELSE 0)
    + (IF FocusOf(crit) = "camera" THEN 40 * Amount(phone, "camera", "mp") ELSE 0)
    + (IF FocusOf(crit) = "display" /\ Shows(phone, "120hz") THEN 2000 ELSE 0)
    + (IF FocusOf(crit) = "display" /\ Shows(phone, "amoled") THEN 1000 ELSE 0)
    + (IF "price_max" \in DOMAIN crit /\ Priced(phone)
       THEN (IF DollarValue(phone["price"]) <= crit["price_max"] THEN 3000 ELSE -5000)
       ELSE 0)

\* C9: _score_phone never raises and returns the sum of the battery, camera and RAM
\* terms, the focus bonus and the budget adjustment, a column that is unparseable,
\* 'N/A', missing or NULL adding 0; the float it returns is the double nearest to that
\* sum or a neighbour of it, so the two agree when rounded to the thousandth.
C9_ScoreTotalAndAdditive ==
    Ranked =>
        \A i \in 1..Len(phones) :
            /\ ~scored[i].raised
            /\ Thousandths(scored[i].score) = AdditiveScore(phones[i], criteria)

\* the battery text of the record parses to a capacity
BatteryParsed(phone) ==
    /\ "battery" \in DOMAIN phone
    /\ phone["battery"] # None
    /\ UnitStarts(Lower(phone["battery"]), "mah") # {}

\* the second record is the first with a battery text that parses to a larger capacity
LargerBattery ==
    /\ Len(phones) = 2
    /\ BatteryParsed(phones[1]) /\ BatteryParsed(phones[2])
    /\ phones[2] = [phones[1] EXCEPT !.battery = phones[2].battery]
    /\ UnitAmount(phones[2].battery, "mah") > UnitAmount(phones[1].battery, "mah")

\* C10: of two records that differ in the battery text alone, the one with the larger
\* parsed capacity scores at least as high, under every focus and every criteria.
C10_BatteryMonotone ==
    (Ranked /\ LargerBattery /\ ~scored[1].raised /\ ~scored[2].raised) =>
        FloatLessEq(scored[1].score, scored[2].score)

\* the case of C10: such a pair scored under the battery focus with a budget
C10_Witness ==
    /\ Ranked /\ LargerBattery
    /\ ~scored[1].raised /\ ~scored[2].raised
    /\ FocusOf(criteria) = "battery" /\ HasPriceMax
    /\ FloatLess(scored[1].score, scored[2].score)

\* every field of every fetched record is a text, as the data model has it: no NULL
TextRecords == \A i \in 1..Len(phones) : \A k \in DOMAIN phones[i] : phones[i][k] # None

\* the ranker was called on records whose fields are texts
Returned == Ranked /\ TextRecords

\* the picks are the records at the positions at, one position per pick
PicksAt(at) ==
    /\ \A k \in DOMAIN at : recommendation_data.top_picks[k] = phones[at[k]]
    /\ \A k, l \in DOMAIN at : k < l => at[k] # at[l]

\* along the positions at the scores never rise, and equal scores keep the input order
InRankOrder(at) ==
    \A k, l \in DOMAIN at : k < l =>
        \/ FloatLess(scored[at[l]].score, scored[at[k]].score)
        \/ scored[at[k]].score = scored[at[l]].score /\ at[k] < at[l]

\* no record left out of the positions at scores higher than one at them
NoBetterLeftOut(at) ==
    \A i \in 1..Len(phones) : \A k \in DOMAIN at :
        (\A l \in DOMAIN at : at[l] # i) => FloatLessEq(scored[i].score, scored[at[k]].score)

\* C11: the top picks are min(3, n) of the n records, in non-increasing score order
\* with equal scores in input order, and no record left out outscores a pick.
C11_TopThreeStable ==
    Returned =>
        /\ ~recommendation_data.raised
        /\ Len(recommendation_data.top_picks) = (IF Len(phones) < 3 THEN Len(phones) ELSE 3)
        /\ \E at \in [1..Len(recommendation_data.top_picks) -> 1..Len(phones)] :
               PicksAt(at) /\ InRankOrder(at) /\ NoBetterLeftOut(at)

\* the case of C11: four records ranked, two that tie among the picks in input order,
\* and the input order is not the rank order
C11_Witness ==
    /\ Returned /\ Len(phones) = 4 /\ Len(recommendation_data.top_picks) = 3
    /\ \E k \in 1..2 :
           /\ recommendation_data.top_picks[k].model_name = "Galaxy M3"
           /\ recommendation_data.top_picks[k + 1].model_name = "Galaxy M2"
    /\ recommendation_data.top_picks # SubSeq(phones, 1, 3)

Compared == pc = "compared" /\ Len(phones) >= 2

\* the attributes whose two values are unequal
Unequal(a, b) == {spec \in {SpecsToCompare[i] : i \in DOMAIN SpecsToCompare} : a[spec] # b[spec]}

\* the position of an attribute in the canonical order
Canonical(spec) == CHOOSE i \in DOMAIN SpecsToCompare : SpecsToCompare[i] = spec

\* C12: the differences are the attributes of the canonical list whose two values are
\* unequal, each once, in canonical order, with the first record's value first.
C12_DifferencesExact ==
    Compared =>
        LET d == comparison_data.differences
        IN  /\ {d[i].spec : i \in DOMAIN d} = Unequal(phones[1], phones[2])
            /\ \A i, j \in DOMAIN d : i < j => Canonical(d[i].spec) < Canonical(d[j].spec)
            /\ \A i \in DOMAIN d :
                   /\ d[i].phone1_value = phones[1][d[i].spec]
                   /\ d[i].phone2_value = phones[2][d[i].spec]
                   /\ d[i].phone1_value # d[i].phone2_value

\* the case of C12: a pair with some attributes equal and some unequal, one of them
\* unequal in spacing alone
C12_Witness ==
    /\ Compared
    /\ Len(comparison_data.differences) = 3
    /\ phones[1].ram = "8 GB" /\ phones[2].ram = "8GB"
    /\ phones[1].camera = None /\ phones[2].camera # None

\* C13: comparing the two records in the other order reports the same attributes in
\* the same order, the two values of every entry swapped.
C13_SwapSymmetric ==
    Compared =>
        LET d == comparison_data.differences
            e == _prepare_comparison(<<phones[2], phones[1]>>).differences
        IN  /\ Len(d) = Len(e)
            /\ \A i \in DOMAIN d :
                   /\ e[i].spec = d[i].spec
                   /\ e[i].phone1_value = d[i].phone2_value
                   /\ e[i].phone2_value = d[i].phone1_value

\* the case of C13: a pair compared whose two records differ in several attributes
C13_Witness ==
    /\ Compared /\ Len(comparison_data.differences) >= 2
    /\ comparison_data.phone1 = phones[1] /\ comparison_data.phone2 = phones[2]
    /\ phones[1].price = "$799" /\ phones[2].price = "$ 799"

\* the record is a row of the table whose price parses to a value within the ceiling
WithinCeiling(phone) ==
    /\ \E i \in 1..Len(catalog) : catalog[i] = phone
    /\ _extract_price(phone.price).kind = "value"
    /\ _extract_price(phone.price).num <= criteria["price_max"] * _extract_price(phone.price).den

\* the fetched records are the rows looked up for the names at the positions at, and
\* the lookup of every other name finds nothing
FetchedByName(at) ==
    /\ \A k \in DOMAIN at :
           /\ get_phone_by_name(mentioned_phones[at[k]], catalog) # 0
           /\ phones[k] = catalog[get_phone_by_name(mentioned_phones[at[k]], catalog)]
    /\ \A k, l \in DOMAIN at : k < l => at[k] < at[l]
    /\ \A i \in 1..Len(mentioned_phones) :
           (\A k \in DOMAIN at : at[k] # i) => get_phone_by_name(mentioned_phones[i], catalog) = 0

\* C14: with a resolved name the fetched records are the records looked up for the
\* names, in resolver order, and nothing else is applied; else with a price ceiling
\* they are at most 10 rows with a parsed price within it; else for a recommendation
\* they are all rows; else there is none.
C14_FetchDecisionOrder ==
    Retrieved =>
        IF mentioned_phones # <<>>
        THEN \E at \in [1..Len(phones) -> 1..Len(mentioned_phones)] : FetchedByName(at)
        ELSE IF HasPriceMax
        THEN Len(phones) <= 10 /\ \A k \in 1..Len(phones) : WithinCeiling(phones[k])
        ELSE IF query_type = "recommendation" THEN phones = catalog
        ELSE phones = <<>>

\* the case of C14: a named model is fetched although its price is not within the
\* ceiling the question sets
C14_Witness ==
    /\ Retrieved /\ HasPriceMax /\ query_type = "recommendation"
    /\ mentioned_phones = <<"Galaxy S24 Ultra">>
    /\ Len(phones) = 1 /\ ~WithinCeiling(phones[1])

\* extract_data has returned
Extracted == pc \in {"extracted", "answered"}

\* C15: the comparison payload is attached exactly for a comparison of two or more
\* records and compares the first two; the recommendation payload is attached exactly
\* for a recommendation and ranks all fetched records; no payload is the {} that
\* _prepare_comparison returns for fewer than two records.
C15_PayloadByIntent ==
    Extracted =>
        /\ "comparison_data" \in DOMAIN extracted_data
               <=> (query_type = "comparison" /\ Len(phones) >= 2)
        /\ "comparison_data" \in DOMAIN extracted_data =>
               /\ extracted_data.comparison_data # EmptyDict
               /\ extracted_data.comparison_data.phone1 = phones[1]
               /\ extracted_data.comparison_data.phone2 = phones[2]
        /\ "recommendation_data" \in DOMAIN extracted_data <=> query_type = "recommendation"
        /\ "recommendation_data" \in DOMAIN extracted_data =>
               /\ extracted_data.recommendation_data.candidates = phones
               /\ extracted_data.recommendation_data.top_picks
                      = _prepare_recommendations(phones, criteria).top_picks

\* the case of C15: a comparison of two fetched records with its payload
C15_Witness ==
    /\ pc = "extracted" /\ query_type = "comparison" /\ Len(phones) = 2
    /\ phones[1] # phones[2]
    /\ extracted_data.comparison_data.differences # <<>>

Answered == pc = "answered"

\* C16: with no fetched record the answer is the fixed message that names example
\* models, under every intent, with or without the models set, no generate_content
\* call is made, and the request does not end in an exception.
C16_NoPhonesMessage ==
    /\ (Answered /\ phones = <<>>) =>
           /\ response = "I couldn't find any Samsung phones matching your query. Please try rephrasing your question or ask about specific models like Galaxy S24 Ultra, S23, A54, etc."
           /\ calls = <<>>
    /\ pc = "raised" => phones # <<>>

\* the case of C16: a recommendation over an empty table with the models set
C16_Witness ==
    /\ Answered /\ phones = <<>> /\ catalog = <<>> /\ self_model
    /\ query_type = "recommendation" /\ response # None

\* generate_review ran with the models set and at least one fetched record
Generating ==
    /\ pc \in {"answered", "raised"} /\ extracted_data # EmptyDict
    /\ self_model /\ phones # <<>>

\* every generate_content call made failed
AllFailed == \A i \in 1..Len(calls) : calls[i].outcome # "text"

\* the rendering the specification prescribes for the intent
PrescribedTemplate ==
    IF query_type = "comparison" THEN _generate_comparison_review(extracted_data)
    ELSE IF query_type = "recommendation" THEN _generate_recommendation_review(extracted_data)
    ELSE IF query_type = "specs" THEN _generate_specs_review(extracted_data)
    ELSE IF Len(phones) = 1 THEN _generate_specs_review(extracted_data)
    ELSE _generate_recommendation_review(extracted_data)

\* C17: with the models set and records whose fields are texts, generate_review
\* returns a text whatever the calls do: the primary model is called first, the
\* fallback model is called when that call fails, a call that succeeds gives its text,
\* and when every call fails the text is the template rendering prescribed for the
\* intent.
C17_GeneratorFailureContained ==
    (Generating /\ TextRecords) =>
        /\ pc = "answered" /\ response # None /\ response # Raised
        /\ calls # <<>> /\ calls[1].backend = "gemini-2.0-flash"
        /\ calls[1].outcome # "text" => (Len(calls) >= 2 /\ calls[2].backend = "gemini-pro")
        /\ ~AllFailed => response = Generated
        /\ AllFailed => response = PrescribedTemplate

\* C18: with at least one record, the rendering is the one prescribed for the intent
\* both when no model is set and when the models are set and every call fails.
C18_SameTemplateBothPaths ==
    (Answered /\ phones # <<>> /\ (~self_model \/ AllFailed)) => response = PrescribedTemplate

\* C19 as stated: under the general intent with no fetched record the answer is the
\* 'please ask' message.
C19_GeneralEmptyPleaseAsk ==
    (Answered /\ query_type = "general" /\ phones = <<>>) =>
        response = "Please ask about specific Samsung phone models or describe what you're looking for."

\* C19 as the code has it: under the general intent with no fetched record the answer
\* is the 'no phones found' message; the 'please ask' message is what
\* _generate_general_review gives for no record, which generate_review never reaches.
C19_GeneralEmptyNotFound ==
    (Answered /\ query_type = "general" /\ phones = <<>>) =>
        /\ response = "I couldn't find any Samsung phones matching your query. Please try rephrasing your question or ask about specific models like Galaxy S24 Ultra, S23, A54, etc."
        /\ _generate_general_review(extracted_data)
               = "Please ask about specific Samsung phone models or describe what you're looking for."

\* the case of C19: a general question that names no model, over a table with rows
C19_Witness ==
    /\ Answered /\ query_type = "general" /\ phones = <<>> /\ catalog # <<>>
    /\ query = "phone" /\ ~self_model

\* the comparison template was rendered for two records
ComparisonRendered ==
    /\ Answered /\ query_type = "comparison" /\ Len(phones) >= 2
    /\ response # Generated

\* what the rendering holds after the recommendation heading
Sentence ==
    SubSeq(response, Len(ComparisonText(phones[1], phones[2], "")) + 1, Len(response))

\* C20: the comparison template ends with one non-empty sentence after the heading,
\* chosen by focus alone: about the cameras under the camera focus, about the
\* batteries under the battery focus, else the one that recommends the first record.
C20_SentenceByFocus ==
    ComparisonRendered =>
        /\ response = ComparisonText(phones[1], phones[2], Sentence)
        /\ Sentence # ""
        /\ IF FocusOf(criteria) = "camera" THEN Contains(Sentence, "camera")
           ELSE IF FocusOf(criteria) = "battery" THEN Contains(Sentence, "battery")
           ELSE Sentence = Field(phones[1], "model_name")
                               \o " is the newer model with improved overall performance and features."

\* the recommendation template was rendered: for a recommendation, or for a general
\* question with two or more records, over records that _score_phone scores
RecommendationRendered ==
    /\ Answered /\ phones # <<>> /\ response # Generated
    /\ response = _generate_recommendation_review(extracted_data)
    /\ query_type = "recommendation" \/ (query_type = "general" /\ Len(phones) >= 2)
    /\ \A i \in 1..Len(phones) : ~ScoreRaises(phones[i], FocusOf(criteria), criteria)

\* the score _score_phone gives the i-th fetched record
FetchedScore(i) == _score_phone(phones[i], FocusOf(criteria), criteria).score

\* the fetched records at the positions at are a ranked top of the fetched records:
\* the scores never rise along them and no record left out scores higher than one of them
RankedTop(at) ==
    /\ \A k, l \in DOMAIN at : k < l => at[k] # at[l] /\ FloatLessEq(FetchedScore(at[l]), FetchedScore(at[k]))
    /\ \A i \in 1..Len(phones) : \A k \in DOMAIN at :
           (\A l \in DOMAIN at : at[l] # i) => FloatLessEq(FetchedScore(i), FetchedScore(at[k]))

\* the rendering is a title, the entries of the records at the positions at numbered
\* from 1, and the closing line that names the first of them
ListsRecords(at) ==
    LET listed == [k \in DOMAIN at |-> phones[at[k]]]
        tail == PickLines(listed, 1) \o "Top recommendation: " \o Field(listed[1], "model_name")
                \o " offers the best value for your needs."
    IN  /\ Len(response) > Len(tail) + 3
        /\ SubSeq(response, Len(response) - Len(tail) + 1, Len(response)) = tail
        /\ LitAt(response, Len(response) - Len(tail) - 3, ":\n\n")
        /\ ~Contains(SubSeq(response, 1, Len(response) - Len(tail)), "**")

\* C21: the recommendation template lists min(3, n) of the n fetched records, numbered
\* from 1, which are a ranked top of the fetched records in descending score order, and
\* its closing line names the first listed record, a highest-scoring fetched record.
C21_ListsRankedTopThree ==
    RecommendationRendered =>
        \E at \in [1..(IF Len(phones) < 3 THEN Len(phones) ELSE 3) -> 1..Len(phones)] :
            ListsRecords(at) /\ RankedTop(at)

\* C22: a request never ends in an exception, and an answer is a text: every question
\* that is passed to process_query ends in a returned string, whatever the rows hold
\* and whatever the generate_content calls do.
C22_AlwaysAString ==
    /\ pc # "raised"
    /\ Answered => response # None /\ response # Raised

\* the question has fewer than 3 characters from its first to its last character that
\* is not white space
TooShort ==
    \A i, j \in 0..(Len(question) - 1) :
        (~IsSpace(Ch(question, i)) /\ ~IsSpace(Ch(question, j))) => j - i < 2

\* nothing of the core has run: no call of process_query, retrieve_specs,
\* extract_phone_names, the lookups or generate_review has left a result
CoreNotEntered ==
    /\ query = None /\ query_type = "unknown" /\ criteria = EmptyDict
    /\ matched_phones = <<>> /\ mentioned_phones = <<>> /\ phones = <<>>
    /\ extracted_data = EmptyDict /\ calls = <<>> /\ response = None

\* C23: once validated, a question that is too short is rejected (HTTP 400) and the
\* core is not entered for it; every other question is passed to process_query as sent.
C23_ShortQuestionRejected ==
    pc # "request" =>
        IF TooShort THEN pc = "rejected" /\ CoreNotEntered
        ELSE pc # "rejected" /\ query = question

\* the case of C23: a question of four characters, two when stripped of the vertical
\* tabs around them, was rejected
C23_Witness ==
    /\ pc = "rejected" /\ CoreNotEntered
    /\ question = Ch(OtherSpace, 0) \o "ab" \o Ch(OtherSpace, 0)

\* the structured result of the query in hand is the one the query gives over the
\* table when nothing was processed before it
ResultOfQueryAlone ==
    /\ pc \in {"retrieved", "extracted", "answered"} =>
           /\ query_type = QueryType(Lower(query))
           /\ criteria = Criteria(Lower(query))
           /\ mentioned_phones = extract_phone_names(query, catalog)
           /\ phones = FetchPhones(extract_phone_names(query, catalog), QueryType(Lower(query)),
                                   Criteria(Lower(query)), catalog)
    /\ pc \in {"extracted", "answered"} =>
           extracted_data = extract_data(query, QueryType(Lower(query)), Criteria(Lower(query)),
                                         FetchPhones(extract_phone_names(query, catalog),
                                                     QueryType(Lower(query)),
                                                     Criteria(Lower(query)), catalog))

\* no commit of run_scraper has changed the table since the session started
TableAsStarted == catalog = AnswerCatalog

\* C24: in every sequence of requests no step of a request writes the table or the
\* agents' models (the table is written by run_scraper alone), and while the table is
\* not written the structured result of a query (intent, criteria, resolved names,
\* fetched records, payload) is the one the query gives when processed first,
\* whatever was processed before it.
C24_NoQueryToQueryState ==
    /\ [](TableAsStarted => ResultOfQueryAlone)
    /\ [][self_model' = self_model]_vars
    /\ [][catalog' # catalog =>
              UNCHANGED <<pc, question, query, query_type, criteria, matched_phones,
                          mentioned_phones, phones, looked, scored, recommendation_data,
                          comparison_data, extracted_data, calls, response>>]_vars

\* the case of C24: a question without criteria has its result while the answer to a
\* recommendation with a price ceiling, processed before it, is still in place
C24_Witness ==
    /\ TableAsStarted
    /\ pc = "extracted" /\ query = "S24" /\ criteria = EmptyDict /\ Len(phones) = 1
    /\ response # None /\ Contains(response, "Best Samsung phones under $1000")

\* the positions of matched_phones whose confidence is floor or more
Confident(floor) == {p \in 1..Len(matched_phones) : matched_phones[p].score >= floor}

\* the place of position p among the positions chosen: after the ones of higher
\* confidence and the ones of equal confidence that come earlier in the table
PlaceAmong(chosen, p) ==
    1 + Cardinality({q \in chosen :
                        \/ matched_phones[q].score > matched_phones[p].score
                        \/ matched_phones[q].score = matched_phones[p].score /\ q < p})

\* the list returned is the names at the positions chosen, each at its place
ReturnedAre(chosen) ==
    /\ Len(mentioned_phones) = Cardinality(chosen)
    /\ \A p \in chosen : mentioned_phones[PlaceAmong(chosen, p)] = matched_phones[p].name

\* C25: extract_phone_names returns the names matched at 80 or more, by descending
\* confidence and in table order where equal; if there is none, the names matched at
\* 30 or more in that order; no name twice, and none below 80 beside one at 80 or more.
C25_SelectionPolicy ==
    Retrieved =>
        /\ ReturnedAre(IF Confident(80) # {} THEN Confident(80) ELSE Confident(30))
        /\ \A k, l \in 1..Len(mentioned_phones) : k < l => mentioned_phones[k] # mentioned_phones[l]
        /\ \A p, q \in 1..Len(matched_phones) :
               (/\ Mentioned(matched_phones[p].name) /\ Mentioned(matched_phones[q].name)
                /\ matched_phones[p].score >= 80) => matched_phones[q].score >= 80

\* the case of C25: two names matched at different confidences of 80 or more are
\* returned in another order than the table's, and a weak match is left out
C25_Witness ==
    /\ Retrieved /\ Len(mentioned_phones) = 2
    /\ \E p, q \in Confident(80) :
           /\ p < q /\ matched_phones[p].score < matched_phones[q].score
           /\ mentioned_phones = <<matched_phones[q].name, matched_phones[p].name>>
    /\ Confident(30) # Confident(80)

\* the offsets of the question s where a word starts with z and the series type follows
SeriesNamedAt(s, series_type) ==
    {k \in 0..Len(s) :
        /\ ~IsWord(Ch(s, k - 1)) /\ Ch(s, k) = "z"
        /\ LitAt(s, k + 1 + SpaceRun(s, k + 1), series_type)}

\* the variant word that stands at offset v of s and ends a word there, or ""
VariantAt(s, v) ==
    IF LitAt(s, v, "fe") /\ ~IsWord(Ch(s, v + 2)) THEN "fe"
    ELSE IF LitAt(s, v, "special") /\ ~IsWord(Ch(s, v + 7)) THEN "special"
    ELSE ""

\* the generation between the offsets b and d, and the variant word after d (white
\* space skipped)
NamedBetween(s, b, d) ==
    [version |-> SubSeq(s, b + 1, d), variant |-> VariantAt(s, d + SpaceRun(s, d))]

\* the digits from offset b on as the generation, and the variant word after them
NamedFrom(s, b) == NamedBetween(s, b, b + DigitRun(s, b))

\* what the question names after the series type, which follows the z at offset z - 1
NamedAfter(s, z, series_type) ==
    NamedFrom(s, z + SpaceRun(s, z) + Len(series_type)
                 + SpaceRun(s, z + SpaceRun(s, z) + Len(series_type)))

\* the generation and variant of the first place where the question names the series
NamedFold(s, series_type) == NamedAfter(s, Leftmost(SeriesNamedAt(s, series_type)) + 1, series_type)

\* row i is a Z Fold / Z Flip candidate that the question does not hold by its full or
\* its core name, and the question names its series type
FoldCandidate(i) ==
    /\ FoldMatch(CoreName(Lower(catalog[i].model_name))).ok
    /\ \A c \in ScoresOf(catalog[i].model_name) : c < 95
    /\ SeriesNamedAt(Asking, FoldMatch(CoreName(Lower(catalog[i].model_name))).series_type) # {}

\* the confidence the claim gives the candidate fold for the generation and variant named
FoldConfidence(fold, named) ==
    IF fold.version = named.version /\ fold.variant = named.variant THEN {90}
    ELSE IF fold.version = named.version /\ named.variant = "" /\ fold.variant # "" THEN {40}
    ELSE {}

\* the confidences recorded for row i are those the claim gives its fold
RecordedAs(i, fold) ==
    ScoresOf(catalog[i].model_name) = FoldConfidence(fold, NamedFold(Asking, fold.series_type))

\* C26: a Z Fold / Z Flip candidate not matched by name is recorded at 90 when the
\* generation and the variant the question names for its series are both the
\* candidate's (both absent included), at 40 when the generation is the candidate's,
\* the question names no variant and the candidate has one, and is not recorded when
\* the generation differs or the question names a variant the candidate lacks.
C26_FoldSeriesMatching ==
    Retrieved =>
        \A i \in 1..Len(catalog) :
            FoldCandidate(i) =>
                RecordedAs(i, FoldMatch(CoreName(Lower(catalog[i].model_name))))

\* the case of C26: the question names Z Flip 6 with no variant; Z Flip6 is recorded
\* at 90, Z Flip6 FE at 40, and Z Fold6 not at all
C26_Witness ==
    /\ Retrieved /\ query = "z flip 6"
    /\ ScoresOf("Galaxy Z Flip6") = {90} /\ ScoresOf("Galaxy Z Flip6 FE") = {40}
    /\ ScoresOf("Galaxy Z Fold6") = {}
    /\ FoldCandidate(7) /\ FoldCandidate(8)

\* C27: with the models set, the primary model is called first and once, the fallback
\* model only after the primary call failed and once, and a template is rendered only
\* after a call of each has failed: no backend is called twice for a request.
C27_EachStrategyOnce ==
    Generating =>
        /\ calls # <<>> /\ calls[1].backend = "gemini-2.0-flash"
        /\ \A i, j \in 1..Len(calls) : i < j =>
               /\ calls[i].outcome # "text"
               /\ calls[i].backend # calls[j].backend
        /\ response # Generated =>
               /\ AllFailed
               /\ \E i \in 1..Len(calls) : calls[i].backend = "gemini-pro"

\* the score of the i-th record is the score it gets under the same focus with no
\* ceiling, and then score += term
BudgetTerm(i, term) ==
    scored[i].score
        = FloatAdd(_score_phone(phones[i], FocusOf(criteria),
                                [k \in DOMAIN criteria \ {"price_max"} |-> criteria[k]]).score,
                   FloatOfInt(term))

\* the price filter, run over the scored records with the ceiling, returns the i-th
PassesFilter(i) ==
    \E k \in 1..Len(search_phones_by_criteria([price_max |-> criteria["price_max"]], phones)) :
        search_phones_by_criteria([price_max |-> criteria["price_max"]], phones)[k] = phones[i]

\* the i-th record has a dollar price that the filter reads as above the ceiling
AboveCeiling(i) ==
    /\ AmountStarts(phones[i].price, "$") # {}
    /\ _extract_price(phones[i].price).kind = "value"
    /\ _extract_price(phones[i].price).num
           > criteria["price_max"] * _extract_price(phones[i].price).den

\* C28: a record the price filter returns for the ceiling gets the bonus of 3 from the
\* scorer, and a record with a dollar price the filter rejects as above the ceiling
\* gets the penalty of 5.
C28_FilterAndScorerAgree ==
    (Ranked /\ HasPriceMax) =>
        \A i \in 1..Len(phones) :
            ("price" \in DOMAIN phones[i] /\ phones[i].price # None /\ ~scored[i].raised) =>
                /\ PassesFilter(i) => BudgetTerm(i, 3)
                /\ AboveCeiling(i) => BudgetTerm(i, -5)

\* the top picks extract_data attached to the payload of a recommendation
Picks == extracted_data.recommendation_data.top_picks

\* the i-th row of the table is scored, has a parsed price within the ceiling of the
\* question and is not among the top picks
LeftOutWithinCeiling(i) ==
    /\ WithinCeiling(catalog[i])
    /\ ~ScoreRaises(catalog[i], FocusOf(criteria), criteria)
    /\ \A k \in 1..Len(Picks) : Picks[k] # catalog[i]

\* C29: for a recommendation with a price ceiling and no resolved name, no row of the
\* table within the ceiling that is left out of the top picks scores strictly higher
\* than a top pick, however many rows are within the ceiling.
C29_BestWithinCeiling ==
    (Extracted /\ query_type = "recommendation" /\ HasPriceMax /\ mentioned_phones = <<>>) =>
        \A i \in 1..Len(catalog) : \A k \in 1..Len(Picks) :
            LeftOutWithinCeiling(i) =>
                FloatLessEq(_score_phone(catalog[i], FocusOf(criteria), criteria).score,
                            _score_phone(Picks[k], FocusOf(criteria), criteria).score)

\* the name is the model name of a row of the table
InCatalog(name) == \E i \in 1..Len(catalog) : catalog[i].model_name = name

\* retrieve_specs has returned records looked up by name
FetchedByNames == Retrieved /\ mentioned_phones # <<>>

\* the fetched records carry the resolved names at the positions at, in their order
NamedAs(at) ==
    /\ \A k \in DOMAIN at : phones[k].model_name = mentioned_phones[at[k]]
    /\ \A k, l \in DOMAIN at : k < l => at[k] < at[l]

\* C30: every name extract_phone_names resolves is a model name of the table it read,
\* the record fetched for a resolved name has exactly that name (a name whose lookup
\* finds nothing has no record), and the fetched list holds no record twice.
C30_NameIsIdentity ==
    /\ [][(pc = "ask" /\ pc' = "fetch") =>
              \A j \in 1..Len(mentioned_phones') : InCatalog(mentioned_phones'[j])]_vars
    /\ [](FetchedByNames =>
              /\ \E at \in [1..Len(phones) -> 1..Len(mentioned_phones)] : NamedAs(at)
              /\ \A k, l \in 1..Len(phones) : k < l => phones[k] # phones[l])

====
